---- MODULE Spec2Model ----
(***************************************************************************)
(* A model of the chained hash table of src/src/dict.c: two tables with    *)
(* incremental rehashing, safe iterators and the reversed-bit scan cursor. *)
(* Entries live in a heap of cells linked by their next field, exactly as  *)
(* the dictEntry chains of the C code.                                     *)
(* The intset of intset.c (src/unnamed/part_000) and the hash object of   *)
(* t_hash.c (src/unnamed/part_001) follow, the latter on top of the dict.  *)
(***************************************************************************)
EXTENDS Integers, Sequences, FiniteSets, TLC

(* ------------------------------ bounds -------------------------------- *)
\* number of distinct keys the callers use
NumKeys == 4
\* number of distinct values the callers store
NumVals == 2
\* log2 of the width in bits of an unsigned long of the model
LogWordBits == 3
\* hash seeds 0..MaxSeed are tried
MaxSeed == 0
\* the largest size a caller passes to dictExpand
MaxExpand == 16
\* the largest n a caller passes to dictRehash
MaxRehashN == 2
\* the largest number of 100-bucket slices dictRehashMilliseconds runs before
\* the clock passes its budget
MaxSlices == 2
\* the largest size passed to dictExpand while an iterator is in use
MaxIterExpand == 8
\* the largest number of entries the growth rule is asked about
MaxGrowUsed == 50
\* the small values given to the intset are 0..NumSmall
NumSmall == 0
\* server.hash_max_ziplist_entries: a packed hash holds at most this many pairs
hash_max_ziplist_entries == 2
\* server.hash_max_ziplist_value: the longest string a packed hash is given by HSET
hash_max_ziplist_value == 1

Keys == 1..NumKeys
Vals == 1..NumVals
WordBits == 2^LogWordBits
WordMod == 2^WordBits
LONG_MAX == 2^(WordBits - 1) - 1

(* --------------------------- program constants ------------------------ *)
NULL == 0
DICT_HT_INITIAL_SIZE == 4
dict_force_resize_ratio == 5
DICT_OK == "DICT_OK"
DICT_ERR == "DICT_ERR"
\* the value field of an entry that dictAddRaw has allocated and nobody set
NoVal == NULL

\* strings are decimal numerals
DecimalBase == 10
\* server.h: minimal hash table fill, in percent
HASHTABLE_MIN_FILL == 10

(* ------------------- unsigned long arithmetic ------------------------- *)
RECURSIVE BitAnd(_, _)
BitAnd(a, b) ==
    IF a = 0 \/ b = 0 THEN 0
    ELSE (a % 2) * (b % 2) + 2 * BitAnd(a \div 2, b \div 2)
BitOr(a, b) == a + b - BitAnd(a, b)
BitXor(a, b) == a + b - 2 * BitAnd(a, b)
BitNot(a) == WordMod - 1 - a
Shl(a, s) == (a * 2^s) % WordMod
Shr(a, s) == a \div 2^s

RECURSIVE revLoop(_, _, _)
revLoop(v, s, mask) ==
    LET s1 == s \div 2
    IN  IF s1 = 0 THEN v
        ELSE LET m1 == BitXor(mask, Shl(mask, s1))
                 v1 == BitOr(BitAnd(Shr(v, s1), m1),
                             BitAnd(Shl(v, s1), BitNot(m1)))
             IN  revLoop(v1, s1, m1)

rev(v) == revLoop(v, WordBits, WordMod - 1)

(* ------------------------------ state --------------------------------- *)
VARIABLES
    d,                        \* the dict: ht[0], ht[1], rehashidx, iterators, and the entry heap
    dict_hash_function_seed,  \* process-wide hash seed
    dict_can_resize,          \* process-wide switch of dictEnableResize/dictDisableResize
    iter,                     \* the dictIterator of the caller
    iter2,                    \* the safe dictIterator of a second caller
    cursor,                   \* the scan cursor the caller holds
    model,                    \* history: the key -> value map the calls describe
    itlog,                    \* history: what the iteration in progress saw
    scanlog,                  \* history: what the scan in progress saw
    fplog,                    \* history: the calls made while an unsafe iterator exists
    iset,                     \* the intset: encoding, length, contents
    iset_model,               \* history: the set of integers the calls describe
    iset_log,                 \* history: the last call on the intset and what it returned
    o,                        \* the hash object: encoding and ptr (ziplist or dict)
    o_model,                  \* history: the field -> value map the calls describe
    o_log                     \* history: the last call on the hash object and what it returned

dictVars == <<d, dict_hash_function_seed, dict_can_resize, iter, cursor, model,
          itlog, scanlog, fplog>>
intsetVars == <<iset, iset_model, iset_log>>
hashVars == <<o, o_model, o_log>>
iterVars == <<iter2>>
nonDictVars == <<intsetVars, hashVars, iterVars>>
vars == <<dictVars, nonDictVars>>

EntryIds == 1..(NumKeys + 1)

FreeCell == [alloc |-> FALSE, key |-> 0, val |-> NoVal, next |-> NULL]

\* addr is the address of the bucket array, NULL when there is none
_dictReset == [size |-> 0, sizemask |-> 0, used |-> 0, addr |-> NULL,
               table |-> [i \in 0..(0 - 1) |-> NULL]]

_dictInit == [ht |-> [t \in 0..1 |-> _dictReset],
              rehashidx |-> 0 - 1,
              iterators |-> 0,
              heap |-> [e \in EntryIds |-> FreeCell],
              fault |-> "none"]

dictIsRehashing(D) == D.rehashidx /= 0 - 1

dictSize(D) == D.ht[0].used + D.ht[1].used

\* the keyed hash of the dict type; the digest is cut to the model's word
dictGenHashFunction(seed, key) ==
    IF seed % 2 = 0 THEN (key * key * key + key + 16 * seed) % WordMod
    ELSE (5 * key + 3 * seed) % WordMod

dictHashKey(key) == dictGenHashFunction(dict_hash_function_seed, key)

\* zmalloc(sizeof(dictEntry)): the cell of the key when it is free, else the
\* lowest free cell
zmalloc(heap, key) ==
    IF ~heap[key].alloc THEN key
    ELSE CHOOSE e \in EntryIds :
            /\ ~heap[e].alloc
            /\ \A f \in EntryIds : ~heap[f].alloc => e <= f

HasFreeCell(heap) == \E e \in EntryIds : ~heap[e].alloc

\* the one element of a set of one element
The(S) == CHOOSE x \in S : TRUE

(* ------------------------ expand and rehash --------------------------- *)
RECURSIVE NextPowerLoop(_, _)
NextPowerLoop(i, size) == IF i >= size THEN i ELSE NextPowerLoop(i * 2, size)

_dictNextPower(size) ==
    IF size >= LONG_MAX THEN LONG_MAX + 1
    ELSE NextPowerLoop(DICT_HT_INITIAL_SIZE, size)

\* zcalloc(realsize*sizeof(dictEntry*)) of an allocator with one free list per
\* size: the block of the size, which is free because the two bucket arrays of
\* a dict never have the same size
zcalloc(realsize) == realsize

\* dictht n: the new table of realsize buckets, all NULL
NewTable(realsize, addr) ==
    [size |-> realsize, sizemask |-> realsize - 1, used |-> 0, addr |-> addr,
     table |-> [i \in 0..(realsize - 1) |-> NULL]]

\* dictExpand from the point where realsize is known
ExpandTo(D, realsize) ==
    IF realsize = D.ht[0].size THEN [D |-> D, ret |-> DICT_ERR]
    ELSE IF D.ht[0].size = 0
    THEN [D |-> [D EXCEPT !.ht[0] = NewTable(realsize, zcalloc(realsize))],
          ret |-> DICT_OK]
    ELSE [D |-> [D EXCEPT !.ht[1] = NewTable(realsize, zcalloc(realsize)),
                          !.rehashidx = 0],
          ret |-> DICT_OK]

\* dictExpand that also refuses the size equal to the number of entries
dictExpandAtUsed(D, size) ==
    IF dictIsRehashing(D) \/ D.ht[0].used >= size
    THEN [D |-> D, ret |-> DICT_ERR]
    ELSE ExpandTo(D, _dictNextPower(size))

dictExpand(D, size) ==
    IF dictIsRehashing(D) \/ D.ht[0].used > size
    THEN [D |-> D, ret |-> DICT_ERR]
    ELSE ExpandTo(D, _dictNextPower(size))

\* MoveChain that forgets d->ht[1].used++
RECURSIVE MoveChainKeepUsed(_, _)
MoveChainKeepUsed(D, de) ==
    IF de = NULL THEN D
    ELSE LET nextde == D.heap[de].next
             h == BitAnd(dictHashKey(D.heap[de].key), D.ht[1].sizemask)
         IN  MoveChainKeepUsed([D EXCEPT !.heap[de].next = D.ht[1].table[h],
                                         !.ht[1].table[h] = de,
                                         !.ht[0].used = @ - 1],
                               nextde)

\* MoveChain that keeps the bucket index of the old table
RECURSIVE MoveChainOldIndex(_, _)
MoveChainOldIndex(D, de) ==
    IF de = NULL THEN D
    ELSE LET nextde == D.heap[de].next
             h == BitAnd(BitAnd(dictHashKey(D.heap[de].key), D.ht[0].sizemask),
                         D.ht[1].sizemask)
         IN  MoveChainOldIndex([D EXCEPT !.heap[de].next = D.ht[1].table[h],
                                         !.ht[1].table[h] = de,
                                         !.ht[0].used = @ - 1,
                                         !.ht[1].used = @ + 1],
                               nextde)

\* the inner while of dictRehash that moves one chain, entry by entry
RECURSIVE MoveChain(_, _)
MoveChain(D, de) ==
    IF de = NULL THEN D
    ELSE LET nextde == D.heap[de].next
             h == BitAnd(dictHashKey(D.heap[de].key), D.ht[1].sizemask)
         IN  The({MoveChain(D1, nextde) :
                 D1 \in {[D EXCEPT !.heap[de].next = D.ht[1].table[h],
                                   !.ht[1].table[h] = de,
                                   !.ht[0].used = @ - 1,
                                   !.ht[1].used = @ + 1]}})

\* SkipEmpty that gives up without keeping the buckets it has passed
RECURSIVE SkipEmptyFrom(_, _, _)
SkipEmptyFrom(D0, D, empty_visits) ==
    IF D.rehashidx >= D.ht[0].size
    THEN [D |-> [D EXCEPT !.fault = "out-of-bounds"], ev |-> empty_visits,
          yield |-> TRUE]
    ELSE IF D.ht[0].table[D.rehashidx] /= NULL
    THEN [D |-> D, ev |-> empty_visits, yield |-> FALSE]
    ELSE IF empty_visits - 1 = 0
    THEN [D |-> D0, ev |-> 0, yield |-> TRUE]
    ELSE SkipEmptyFrom(D0, [D EXCEPT !.rehashidx = @ + 1], empty_visits - 1)

SkipEmptyForgetful(D, empty_visits) == SkipEmptyFrom(D, D, empty_visits)

\* the while loop that skips the empty buckets of ht[0]
RECURSIVE SkipEmpty(_, _)
SkipEmpty(D, empty_visits) ==
    IF D.rehashidx >= D.ht[0].size
    THEN [D |-> [D EXCEPT !.fault = "out-of-bounds"], ev |-> empty_visits,
          yield |-> TRUE]
    ELSE IF D.ht[0].table[D.rehashidx] /= NULL
    THEN [D |-> D, ev |-> empty_visits, yield |-> FALSE]
    ELSE IF empty_visits - 1 = 0
    THEN [D |-> [D EXCEPT !.rehashidx = @ + 1], ev |-> 0, yield |-> TRUE]
    ELSE SkipEmpty([D EXCEPT !.rehashidx = @ + 1], empty_visits - 1)

\* d->ht[0].table[d->rehashidx] = NULL; d->rehashidx++;
ClearBucket(D) ==
    [D EXCEPT !.ht[0].table[D.rehashidx] = NULL, !.rehashidx = @ + 1]

\* one bucket: the chain at rehashidx goes to ht[1]
MoveBucket(D) == ClearBucket(MoveChain(D, D.ht[0].table[D.rehashidx]))

RECURSIVE RehashLoop(_, _, _)
\* the body of the while of dictRehash once the empty buckets are skipped
RehashAfterSkip(s, n) ==
    IF s.yield THEN [D |-> s.D, yield |-> TRUE]
    ELSE The({RehashLoop(D1, n - 1, s.ev) : D1 \in {MoveBucket(s.D)}})

\* RehashLoop that does not count the buckets it moves
RehashLoopUncounted(D, n, empty_visits) ==
    IF n = 0 \/ D.ht[0].used = 0
    THEN [D |-> D, yield |-> FALSE]
    ELSE IF ~(D.ht[0].size > D.rehashidx)
    THEN [D |-> [D EXCEPT !.fault = "assert"], yield |-> TRUE]
    ELSE The({RehashAfterSkip(s, n + 1) : s \in {SkipEmpty(D, empty_visits)}})

RehashLoop(D, n, empty_visits) ==
    IF n = 0 \/ D.ht[0].used = 0
    THEN [D |-> D, yield |-> FALSE]
    ELSE IF ~(D.ht[0].size > D.rehashidx)
    THEN [D |-> [D EXCEPT !.fault = "assert"], yield |-> TRUE]
    ELSE The({RehashAfterSkip(s, n) : s \in {SkipEmpty(D, empty_visits)}})

\* RehashDone that forgets to reset ht[1] when the rehash completes
RehashDoneNoReset(r) ==
    IF r.yield THEN [D |-> r.D, ret |-> 1]
    ELSE IF r.D.ht[0].used = 0
    THEN [D |-> [r.D EXCEPT !.ht[0] = r.D.ht[1], !.rehashidx = 0 - 1],
          ret |-> 0]
    ELSE [D |-> r.D, ret |-> 1]

\* the end of dictRehash: has the whole table been rehashed?
RehashDone(r) ==
    IF r.yield THEN [D |-> r.D, ret |-> 1]
    ELSE IF r.D.ht[0].used = 0
    THEN [D |-> [r.D EXCEPT !.ht = [t \in 0..1 |->
                                      IF t = 0 THEN r.D.ht[1] ELSE _dictReset],
                            !.rehashidx = 0 - 1],
          ret |-> 0]
    ELSE [D |-> r.D, ret |-> 1]

dictRehash(D, n) ==
    IF ~dictIsRehashing(D) THEN [D |-> D, ret |-> 0]
    ELSE The({RehashDone(r) : r \in {RehashLoop(D, n, n * 10)}})

\* _dictRehashStep that does not look at the iterators counter
_dictRehashStepAlways(D) == dictRehash(D, 1).D

\* _dictRehashStep of two buckets
_dictRehashStepTwo(D) == IF D.iterators = 0 THEN dictRehash(D, 2).D ELSE D

_dictRehashStep(D) == IF D.iterators = 0 THEN dictRehash(D, 1).D ELSE D

\* if (dictIsRehashing(d)) _dictRehashStep(d);
StepIfRehashing(D) == IF dictIsRehashing(D) THEN _dictRehashStep(D) ELSE D

(* ------------------------- lookup and insert -------------------------- *)
\* the size _dictExpandIfNeeded asks dictExpand for when no rehash is in
\* progress, ht[0] having size buckets and used entries; NULL: none
\* variant: the forced growth starts at the ratio itself
ExpandSizeAtRatio(size, used) ==
    IF size = 0 THEN DICT_HT_INITIAL_SIZE
    ELSE IF /\ used >= size
            /\ \/ dict_can_resize = 1
               \/ used \div size >= dict_force_resize_ratio
         THEN used * 2
         ELSE NULL

ExpandSizeIfNeeded(size, used) ==
    IF size = 0 THEN DICT_HT_INITIAL_SIZE
    ELSE IF /\ used >= size
            /\ \/ dict_can_resize = 1
               \/ used \div size > dict_force_resize_ratio
         THEN used * 2
         ELSE NULL

_dictExpandIfNeeded(D) ==
    IF dictIsRehashing(D) THEN [D |-> D, ret |-> DICT_OK]
    ELSE IF ExpandSizeIfNeeded(D.ht[0].size, D.ht[0].used) = NULL
    THEN [D |-> D, ret |-> DICT_OK]
    ELSE dictExpand(D, ExpandSizeIfNeeded(D.ht[0].size, D.ht[0].used))

\* he = table[idx]; while (he) { if (key == he->key) return he; he = he->next; }
RECURSIVE ChainFind(_, _, _)
ChainFind(heap, he, key) ==
    IF he = NULL THEN NULL
    ELSE IF heap[he].key = key THEN he
    ELSE ChainFind(heap, heap[he].next, key)

\* the entry of key in bucket hash & sizemask of table t, or NULL
ProbeTable(D, t, hash, key) ==
    ChainFind(D.heap, D.ht[t].table[BitAnd(hash, D.ht[t].sizemask)], key)

\* KeyIndexSearch that looks for the key in ht[0] only
KeyIndexSearchFirstTable(E, key, hash) ==
    IF ProbeTable(E, 0, hash, key) /= NULL
    THEN [D |-> E, idx |-> 0 - 1, existing |-> ProbeTable(E, 0, hash, key)]
    ELSE IF ~dictIsRehashing(E)
    THEN [D |-> E, idx |-> BitAnd(hash, E.ht[0].sizemask), existing |-> NULL]
    ELSE [D |-> E, idx |-> BitAnd(hash, E.ht[1].sizemask), existing |-> NULL]

\* the for loop of _dictKeyIndex over the two tables
KeyIndexSearch(E, key, hash) ==
    IF ProbeTable(E, 0, hash, key) /= NULL
    THEN [D |-> E, idx |-> 0 - 1, existing |-> ProbeTable(E, 0, hash, key)]
    ELSE IF ~dictIsRehashing(E)
    THEN [D |-> E, idx |-> BitAnd(hash, E.ht[0].sizemask), existing |-> NULL]
    ELSE IF ProbeTable(E, 1, hash, key) /= NULL
    THEN [D |-> E, idx |-> 0 - 1, existing |-> ProbeTable(E, 1, hash, key)]
    ELSE [D |-> E, idx |-> BitAnd(hash, E.ht[1].sizemask), existing |-> NULL]

\* _dictKeyIndex once _dictExpandIfNeeded has returned x
KeyIndexExpanded(x, key) ==
    IF x.ret = DICT_ERR THEN [D |-> x.D, idx |-> 0 - 1, existing |-> NULL]
    ELSE KeyIndexSearch(x.D, key, dictHashKey(key))

_dictKeyIndex(D, key) == KeyIndexExpanded(_dictExpandIfNeeded(D), key)

\* AddRawInsert that always inserts into ht[0]
AddRawInsertFirstTable(E, key, index, entry) ==
    [E EXCEPT !.heap[entry] =
                  [alloc |-> TRUE, key |-> key, val |-> NoVal,
                   next |-> E.ht[0].table[BitAnd(index, E.ht[0].sizemask)]],
              !.ht[0].table[BitAnd(index, E.ht[0].sizemask)] = entry,
              !.ht[0].used = @ + 1]

\* the new entry goes to the head of bucket index of ht[1] when rehashing,
\* of ht[0] otherwise
AddRawInsert(E, key, index, entry) ==
    LET t == IF dictIsRehashing(E) THEN 1 ELSE 0
    IN  [E EXCEPT !.heap[entry] =
                      [alloc |-> TRUE, key |-> key, val |-> NoVal,
                       next |-> E.ht[t].table[index]],
                  !.ht[t].table[index] = entry,
                  !.ht[t].used = @ + 1]

\* dictAddRaw once _dictKeyIndex has returned k
AddRawIndexed(k, key) ==
    IF k.idx = 0 - 1
    THEN [D |-> k.D, entry |-> NULL, existing |-> k.existing]
    ELSE [D |-> AddRawInsert(k.D, key, k.idx, zmalloc(k.D.heap, key)),
          entry |-> zmalloc(k.D.heap, key), existing |-> NULL]

dictAddRaw(D, key) == AddRawIndexed(_dictKeyIndex(StepIfRehashing(D), key), key)

dictSetVal(D, entry, val) == [D EXCEPT !.heap[entry].val = val]

\* dictAdd once dictAddRaw has returned r
\* variant: the value is stored in the existing entry as well
AddValueOverwrite(r, val) ==
    IF r.entry = NULL
    THEN [D |-> dictSetVal(r.D, r.existing, val), ret |-> DICT_ERR]
    ELSE [D |-> dictSetVal(r.D, r.entry, val), ret |-> DICT_OK]

AddValue(r, val) ==
    IF r.entry = NULL THEN [D |-> r.D, ret |-> DICT_ERR]
    ELSE [D |-> dictSetVal(r.D, r.entry, val), ret |-> DICT_OK]

dictAdd(D, key, val) == AddValue(dictAddRaw(D, key), val)

\* dictReplace once dictAddRaw has returned r
\* calls: the values dictSetVal and dictFreeVal were called with, in the
\* order of the calls; auxentry is the copy of *existing taken before the set
ReplaceExistingFreeFirst(D, existing, auxentry, val) ==
    [D |-> dictSetVal(D, existing, val), ret |-> 0,
     calls |-> <<[call |-> "dictFreeVal", val |-> auxentry.val],
                 [call |-> "dictSetVal", val |-> val]>>]

ReplaceExisting(D, existing, auxentry, val) ==
    [D |-> dictSetVal(D, existing, val), ret |-> 0,
     calls |-> <<[call |-> "dictSetVal", val |-> val],
                 [call |-> "dictFreeVal", val |-> auxentry.val]>>]

ReplaceValue(r, val) ==
    IF r.entry /= NULL
    THEN [D |-> dictSetVal(r.D, r.entry, val), ret |-> 1,
          calls |-> <<[call |-> "dictSetVal", val |-> val]>>]
    ELSE ReplaceExisting(r.D, r.existing, r.D.heap[r.existing], val)

dictReplace(D, key, val) == ReplaceValue(dictAddRaw(D, key), val)

\* return entry ? entry : existing;
EntryOrExisting(r) ==
    [D |-> r.D, ret |-> IF r.entry /= NULL THEN r.entry ELSE r.existing]

dictAddOrFind(D, key) == EntryOrExisting(dictAddRaw(D, key))

(* ------------------------------ delete -------------------------------- *)
\* the walk of dictGenericDelete over one chain, keeping prevHe
RECURSIVE ChainWalk(_, _, _, _)
ChainWalk(heap, he, prevHe, key) ==
    IF he = NULL THEN [he |-> NULL, prevHe |-> prevHe]
    ELSE IF heap[he].key = key THEN [he |-> he, prevHe |-> prevHe]
    ELSE ChainWalk(heap, heap[he].next, he, key)

WalkTable(D, t, h, key) ==
    ChainWalk(D.heap, D.ht[t].table[BitAnd(h, D.ht[t].sizemask)], NULL, key)

\* free(he) unless nofree
FreeUnless(D, he, nofree) ==
    IF nofree = 0 THEN [D EXCEPT !.heap[he] = FreeCell] ELSE D

\* unlink w.he from the chain of bucket idx of table t, free it unless nofree
UnlinkEntry(D, t, idx, w, nofree) ==
    IF w.prevHe /= NULL
    THEN FreeUnless([D EXCEPT !.heap[w.prevHe].next = D.heap[w.he].next,
                              !.ht[t].used = @ - 1], w.he, nofree)
    ELSE FreeUnless([D EXCEPT !.ht[t].table[idx] = D.heap[w.he].next,
                              !.ht[t].used = @ - 1], w.he, nofree)

\* the for loop of dictGenericDelete over the two tables
DeleteSearch(D1, key, nofree, h) ==
    LET w0 == WalkTable(D1, 0, h, key)
        w1 == WalkTable(D1, 1, h, key)
    IN  IF w0.he /= NULL
        THEN [D |-> UnlinkEntry(D1, 0, BitAnd(h, D1.ht[0].sizemask), w0, nofree),
              he |-> w0.he]
        ELSE IF ~dictIsRehashing(D1) THEN [D |-> D1, he |-> NULL]
        ELSE IF w1.he /= NULL
        THEN [D |-> UnlinkEntry(D1, 1, BitAnd(h, D1.ht[1].sizemask), w1, nofree),
              he |-> w1.he]
        ELSE [D |-> D1, he |-> NULL]

dictGenericDelete(D, key, nofree) ==
    IF D.ht[0].used = 0 /\ D.ht[1].used = 0 THEN [D |-> D, he |-> NULL]
    ELSE DeleteSearch(StepIfRehashing(D), key, nofree, dictHashKey(key))

\* return dictGenericDelete(ht,key,0) ? DICT_OK : DICT_ERR;
DeleteStatus(r) ==
    [D |-> r.D, ret |-> IF r.he /= NULL THEN DICT_OK ELSE DICT_ERR]

dictDelete(D, key) == DeleteStatus(dictGenericDelete(D, key, 0))

dictUnlink(D, key) == dictGenericDelete(D, key, 1)

dictFreeUnlinkedEntry(D, he) ==
    IF he = NULL THEN D ELSE [D EXCEPT !.heap[he] = FreeCell]

(* ------------------------------- find --------------------------------- *)
\* FindProbe that never looks into ht[1]
FindProbeFirstTable(D, key) == ProbeTable(D, 0, dictHashKey(key), key)

\* the probe of dictFind once its rehash step is done
FindProbe(D, key) ==
    IF ProbeTable(D, 0, dictHashKey(key), key) /= NULL
    THEN ProbeTable(D, 0, dictHashKey(key), key)
    ELSE IF ~dictIsRehashing(D) THEN NULL
    ELSE ProbeTable(D, 1, dictHashKey(key), key)

FindIn(D1, key) == [D |-> D1, he |-> FindProbe(D1, key)]

dictFind(D, key) ==
    IF D.ht[0].used + D.ht[1].used = 0 THEN [D |-> D, he |-> NULL]
    ELSE FindIn(StepIfRehashing(D), key)

\* dictResize that does not look at dict_can_resize
dictResizeAlways(D) ==
    IF dictIsRehashing(D) THEN [D |-> D, ret |-> DICT_ERR]
    ELSE dictExpand(D, IF D.ht[0].used < DICT_HT_INITIAL_SIZE
                       THEN DICT_HT_INITIAL_SIZE ELSE D.ht[0].used)

dictResize(D) ==
    IF dict_can_resize = 0 \/ dictIsRehashing(D) THEN [D |-> D, ret |-> DICT_ERR]
    ELSE dictExpand(D, IF D.ht[0].used < DICT_HT_INITIAL_SIZE
                       THEN DICT_HT_INITIAL_SIZE ELSE D.ht[0].used)

(* ----------------------- time-sliced rehash --------------------------- *)
\* slices: how many times the clock is read before the budget is exceeded
RECURSIVE RehashMsLoop(_, _, _)
\* the body of the while of dictRehashMilliseconds once dictRehash returned r
RehashMsSlice(r, rehashes, slices) ==
    IF r.ret = 0 THEN [D |-> r.D, ret |-> rehashes]
    ELSE IF slices <= 1 THEN [D |-> r.D, ret |-> rehashes + 100]
    ELSE RehashMsLoop(r.D, rehashes + 100, slices - 1)

RehashMsLoop(D, rehashes, slices) ==
    RehashMsSlice(dictRehash(D, 100), rehashes, slices)

dictRehashMilliseconds(D, slices) == RehashMsLoop(D, 0, slices)

(* ---------------------------- fingerprint ----------------------------- *)
\* a long long is the tuple of its four 16-bit limbs, lowest limb first
Limb == 2^16

\* the long long of an int
LLOfInt(n) ==
    <<n % Limb, (n \div Limb) % Limb,
      IF n < 0 THEN Limb - 1 ELSE 0, IF n < 0 THEN Limb - 1 ELSE 0>>

\* the sums of the limbs with the carries of the lower limbs
RECURSIVE LimbSum(_, _, _)
LimbSum(a, b, i) ==
    IF i = 1 THEN a[1] + b[1]
    ELSE a[i] + b[i] + (LimbSum(a, b, i - 1) \div Limb)

LLAdd(a, b) ==
    <<LimbSum(a, b, 1) % Limb, LimbSum(a, b, 2) % Limb,
      LimbSum(a, b, 3) % Limb, LimbSum(a, b, 4) % Limb>>
LLNot(a) == <<Limb - 1 - a[1], Limb - 1 - a[2], Limb - 1 - a[3], Limb - 1 - a[4]>>
LLXor(a, b) ==
    <<BitXor(a[1], b[1]), BitXor(a[2], b[2]), BitXor(a[3], b[3]),
      BitXor(a[4], b[4])>>

\* limb i of a, 0 below the lowest limb and fill above the highest
LimbAt(a, i, fill) == IF i < 1 THEN 0 ELSE IF i > 4 THEN fill ELSE a[i]

ShlLimb(a, i, q, r) ==
    ((LimbAt(a, i - q, 0) * 2^r) % Limb)
    + (LimbAt(a, i - q - 1, 0) \div 2^(16 - r))

LLShl(a, k) ==
    <<ShlLimb(a, 1, k \div 16, k % 16), ShlLimb(a, 2, k \div 16, k % 16),
      ShlLimb(a, 3, k \div 16, k % 16), ShlLimb(a, 4, k \div 16, k % 16)>>

\* >> of a signed long long fills with the sign bit
SignFill(a) == IF a[4] >= Limb \div 2 THEN Limb - 1 ELSE 0

ShrLimb(a, i, q, r) ==
    (LimbAt(a, i + q, SignFill(a)) \div 2^r)
    + ((LimbAt(a, i + q + 1, SignFill(a)) % 2^r) * 2^(16 - r))

LLShr(a, k) ==
    <<ShrLimb(a, 1, k \div 16, k % 16), ShrLimb(a, 2, k \div 16, k % 16),
      ShrLimb(a, 3, k \div 16, k % 16), ShrLimb(a, 4, k \div 16, k % 16)>>

LLXorShr(h, k) == LLXor(h, LLShr(h, k))
LLAddShl(h, k) == LLAdd(h, LLShl(h, k))
LLAddShl2(h, j, k) == LLAdd(LLAddShl(h, j), LLShl(h, k))

\* Tomas Wang's 64 bit integer hash, the seven statements of the loop body,
\* each applied to the value the statement before it has left in hash
WangMix1(h) == LLAdd(LLNot(h), LLShl(h, 21))
WangMix3(h) == The({LLAddShl2(h2, 3, 8) : h2 \in {LLXorShr(h, 24)}})
WangMix5(h) == The({LLAddShl2(h4, 2, 4) : h4 \in {LLXorShr(h, 14)}})
WangMix7(h) == The({LLAddShl(h6, 31) : h6 \in {LLXorShr(h, 28)}})
WangMix(h) ==
    The({WangMix7(h5) : h5 \in {WangMix5(h3) : h3 \in
            {WangMix3(h1) : h1 \in {WangMix1(h0) : h0 \in {h}}}}})

\* integers[6] of dictFingerprint
FingerprintIntegers(D) ==
    <<D.ht[0].addr, D.ht[0].size, D.ht[0].used,
      D.ht[1].addr, D.ht[1].size, D.ht[1].used>>

\* for (j = 0; j < 6; j++) { hash += integers[j]; ... }
RECURSIVE FingerprintLoop(_, _, _)
FingerprintLoop(integers, j, hash) ==
    IF j > Len(integers) THEN hash
    ELSE The({FingerprintLoop(integers, j + 1, h1) :
                h1 \in {WangMix(LLAdd(hash, LLOfInt(integers[j])))}})

dictFingerprint(D) == FingerprintLoop(FingerprintIntegers(D), 1, LLOfInt(0))

(* ----------------------------- iterators ------------------------------ *)
\* the fingerprint field is not set until the first dictNext
dictGetIterator ==
    [live |-> TRUE, table |-> 0, index |-> 0 - 1, safe |-> 0,
     entry |-> NULL, nextEntry |-> NULL, fingerprint |-> LLOfInt(0)]

dictGetSafeIterator == [dictGetIterator EXCEPT !.safe = 1]

RECURSIVE dictNextLoop(_, _)
\* if (iter->entry) { iter->nextEntry = iter->entry->next; return iter->entry; }
NextYield(D1, it1) ==
    IF it1.entry = NULL THEN dictNextLoop(D1, it1)
    ELSE IF ~D1.heap[it1.entry].alloc
    THEN [D |-> [D1 EXCEPT !.fault = "use-after-free"], it |-> it1,
          ret |-> NULL]
    ELSE [D |-> D1, it |-> [it1 EXCEPT !.nextEntry = D1.heap[it1.entry].next],
          ret |-> it1.entry]

\* the first call of dictNext counts the safe iterator in
NextCountIn(D, it) ==
    IF it.index = 0 - 1 /\ it.table = 0 /\ it.safe = 1
    THEN [D EXCEPT !.iterators = @ + 1] ELSE D

\* the first call of dictNext on an unsafe iterator takes the fingerprint;
\* r is what the walk of that call returns
NextFingerprint(D, it, r) ==
    IF it.index = 0 - 1 /\ it.table = 0 /\ it.safe = 0
    THEN [r EXCEPT !.it.fingerprint = dictFingerprint(D)] ELSE r

\* iter->index++ and the move to the next bucket or the next table
NextBucket(D1, it1, index) ==
    IF index >= D1.ht[it1.table].size
    THEN IF dictIsRehashing(D1) /\ it1.table = 0
         THEN NextYield(D1, [it1 EXCEPT !.table = 1, !.index = 0,
                                       !.entry = D1.ht[1].table[0]])
         ELSE [D |-> D1, it |-> [it1 EXCEPT !.index = index], ret |-> NULL]
    ELSE NextYield(D1, [it1 EXCEPT !.index = index,
                                  !.entry = D1.ht[it1.table].table[index]])

dictNextLoop(D, it) ==
    IF it.entry = NULL
    THEN NextBucket(D, it, it.index + 1)
    ELSE NextYield(D, [it EXCEPT !.entry = it.nextEntry])

\* the first pass of the first call counts the iterator in or takes the
\* fingerprint: iter->entry is NULL then
dictNext(D, it) == NextFingerprint(D, it, dictNextLoop(NextCountIn(D, it), it))

\* dictReleaseIterator that counts out an iterator that was never advanced
dictReleaseIteratorAlways(D, it) ==
    IF it.safe = 1 THEN [D EXCEPT !.iterators = @ - 1]
    ELSE IF it.index = 0 - 1 /\ it.table = 0 THEN D
    ELSE IF it.fingerprint = dictFingerprint(D) THEN D
    ELSE [D EXCEPT !.fault = "fingerprint"]

dictReleaseIterator(D, it) ==
    IF it.index = 0 - 1 /\ it.table = 0 THEN D
    ELSE IF it.safe = 1 THEN [D EXCEPT !.iterators = @ - 1]
    ELSE IF it.fingerprint = dictFingerprint(D) THEN D
    ELSE [D EXCEPT !.fault = "fingerprint"]

(* -------------------------------- scan -------------------------------- *)
\* ScanAdvance that counts the cursor up from the low bit
ScanAdvanceLinear(v, m) == BitAnd(v + 1, m)

\* ScanAdvance without v |= ~m
ScanAdvanceUnmasked(v, m) == rev((rev(v) + 1) % WordMod)

\* v |= ~m; v = rev(v); v++; v = rev(v);
ScanAdvance(v, m) == rev((rev(BitOr(v, BitNot(m))) + 1) % WordMod)

\* the entries of one chain in the order the callback fn receives them
RECURSIVE ChainEntries(_, _)
ChainEntries(heap, he) ==
    IF he = NULL THEN <<>> ELSE <<he>> \o ChainEntries(heap, heap[he].next)

\* the entries of bucket v & sizemask of table t
EmitBucket(D, t, v) ==
    ChainEntries(D.heap, D.ht[t].table[BitAnd(v, D.ht[t].sizemask)])

RECURSIVE ScanLarger(_, _, _, _, _)
\* the test of the do-while once the cursor has advanced to v1
ScanContinue(D, t1, v1, m0, emit) ==
    IF BitAnd(v1, BitXor(m0, D.ht[t1].sizemask)) /= 0
    THEN ScanLarger(D, t1, v1, m0, emit)
    ELSE [v |-> v1, emit |-> emit]

\* the do-while over the expansions of the cursor in the larger table t1
ScanLarger(D, t1, v, m0, emitted) ==
    ScanContinue(D, t1, ScanAdvance(v, D.ht[t1].sizemask), m0,
                 emitted \o EmitBucket(D, t1, v))

\* ScanTwoTables that does not emit the bucket of the smaller table
ScanTwoTablesLargerOnly(D, t0, v) ==
    ScanLarger(D, 1 - t0, v, D.ht[t0].sizemask, <<>>)

\* the rehashing branch: t0 is the smaller table
ScanTwoTables(D, t0, v) ==
    ScanLarger(D, 1 - t0, v, D.ht[t0].sizemask, EmitBucket(D, t0, v))

dictScan(D, v) ==
    IF dictSize(D) = 0 THEN [v |-> 0, emit |-> <<>>]
    ELSE IF ~dictIsRehashing(D)
    THEN [v |-> ScanAdvance(v, D.ht[0].sizemask), emit |-> EmitBucket(D, 0, v)]
    ELSE ScanTwoTables(D, IF D.ht[0].size > D.ht[1].size THEN 1 ELSE 0, v)

(* ------------------------------ calls --------------------------------- *)
(* ------------------------------- intset -------------------------------- *)
\* sizeof(int16_t), sizeof(int32_t), sizeof(int64_t)
INTSET_ENC_INT16 == 2
INTSET_ENC_INT32 == 4
INTSET_ENC_INT64 == 8

INT16_MAX == 32767
INT16_MIN == 0 - INT16_MAX - 1
INT32_MAX == 2147483647
INT32_MIN == 0 - INT32_MAX - 1

\* an int64_t is a long long: four limbs of sizeof(int16_t) bytes each
LimbBytes == INTSET_ENC_INT16
EncLimbs(enc) == enc \div LimbBytes

\* a < b for the unsigned numbers of the limbs i, i - 1, ..., 1
RECURSIVE LimbsLess(_, _, _)
LimbsLess(a, b, i) ==
    IF i = 0 THEN FALSE
    ELSE IF a[i] /= b[i] THEN a[i] < b[i]
    ELSE LimbsLess(a, b, i - 1)

\* a < b for int64_t
LLLess(a, b) ==
    IF SignFill(a) /= SignFill(b) THEN SignFill(a) /= 0
    ELSE LimbsLess(a, b, Len(a))

\* _intsetValueEncoding that never answers INTSET_ENC_INT32
ValueEncodingNoInt32(v) ==
    IF LLLess(v, LLOfInt(INT16_MIN)) \/ LLLess(LLOfInt(INT16_MAX), v)
    THEN INTSET_ENC_INT64
    ELSE INTSET_ENC_INT16

_intsetValueEncoding(v) ==
    IF LLLess(v, LLOfInt(INT32_MIN)) \/ LLLess(LLOfInt(INT32_MAX), v)
    THEN INTSET_ENC_INT64
    ELSE IF LLLess(v, LLOfInt(INT16_MIN)) \/ LLLess(LLOfInt(INT16_MAX), v)
    THEN INTSET_ENC_INT32
    ELSE INTSET_ENC_INT16

\* the limbs that extend a signed number whose highest limb is x
LimbFill(x) == IF x >= Limb \div 2 THEN Limb - 1 ELSE 0

\* the conversion of an int16_t or int32_t to int64_t
SignExtend(l) ==
    IF Len(l) = 1 THEN <<l[1], LimbFill(l[1]), LimbFill(l[1]), LimbFill(l[1])>>
    ELSE IF Len(l) = 2 THEN <<l[1], l[2], LimbFill(l[2]), LimbFill(l[2])>>
    ELSE l

\* the element at pos of contents read as enc
_intsetGetEncoded(is, pos, enc) ==
    SignExtend(SubSeq(is.contents, pos * EncLimbs(enc) + 1,
                      (pos + 1) * EncLimbs(enc)))

_intsetGet(is, pos) == _intsetGetEncoded(is, pos, is.encoding)

\* limbs n of value written over those that follow the first k of contents
StoreLimbs(contents, k, value, n) ==
    SubSeq(contents, 1, k) \o SubSeq(value, 1, n)
    \o SubSeq(contents, k + n + 1, Len(contents))

\* ((intN_t*)is->contents)[pos] = value keeps the low limbs of value
_intsetSet(is, pos, value) ==
    [is EXCEPT !.contents = StoreLimbs(@, pos * EncLimbs(is.encoding), value,
                                       EncLimbs(is.encoding))]

intsetNew == [encoding |-> INTSET_ENC_INT16, length |-> 0, contents |-> <<>>]

\* a limb of memory that was allocated and not written yet
Uninit == Limb

\* zrealloc to n limbs: the limbs kept, the new ones not written yet
Realloc(contents, n) ==
    IF n <= Len(contents) THEN SubSeq(contents, 1, n)
    ELSE contents \o [i \in 1..(n - Len(contents)) |-> Uninit]

intsetResize(is, len) ==
    [is EXCEPT !.contents = Realloc(@, len * EncLimbs(is.encoding))]

\* the end of intsetSearch: if (value == cur) ... else ...
SearchEnd(value, min, mid, cur) ==
    IF value = cur THEN [found |-> 1, pos |-> mid]
    ELSE [found |-> 0, pos |-> min]

RECURSIVE SearchLoop(_, _, _, _, _, _)
\* the body of the while once cur = _intsetGet(is,mid) is read
SearchStep(is, value, min, max, mid, cur) ==
    IF LLLess(cur, value) THEN SearchLoop(is, value, mid + 1, max, mid, cur)
    ELSE IF LLLess(value, cur)
    THEN SearchLoop(is, value, min, mid - 1, mid, cur)
    ELSE SearchEnd(value, min, mid, cur)

\* while(max >= min)
SearchLoop(is, value, min, max, mid, cur) ==
    IF max >= min
    THEN SearchStep(is, value, min, max, (min + max) \div 2,
                    _intsetGet(is, (min + max) \div 2))
    ELSE SearchEnd(value, min, mid, cur)

\* intsetSearch whose insert position is one too low
intsetSearchLowPos(is, value) ==
    IF is.length = 0 THEN [found |-> 0, pos |-> 0]
    ELSE IF LLLess(_intsetGet(is, is.length - 1), value)
    THEN [found |-> 0, pos |-> is.length - 1]
    ELSE IF LLLess(value, _intsetGet(is, 0)) THEN [found |-> 0, pos |-> 0]
    ELSE SearchLoop(is, value, 0, is.length - 1, 0 - 1, LLOfInt(0 - 1))

\* found is the return value, pos is *pos
intsetSearch(is, value) ==
    IF is.length = 0 THEN [found |-> 0, pos |-> 0]
    ELSE IF LLLess(_intsetGet(is, is.length - 1), value)
    THEN [found |-> 0, pos |-> is.length]
    ELSE IF LLLess(value, _intsetGet(is, 0)) THEN [found |-> 0, pos |-> 0]
    ELSE SearchLoop(is, value, 0, is.length - 1, 0 - 1, LLOfInt(0 - 1))

\* int prepend = value < 0 ? 1 : 0;
Prepend(value) == IF LLLess(value, LLOfInt(0)) THEN 1 ELSE 0

\* while(length--) _intsetSet(is,length+prepend,_intsetGetEncoded(is,length,curenc));
RECURSIVE UpgradeLoop(_, _, _, _)
UpgradeLoop(is, length, prepend, curenc) ==
    IF length = 0 THEN is
    ELSE The({UpgradeLoop(is1, length - 1, prepend, curenc) :
                is1 \in {_intsetSet(is, length - 1 + prepend,
                                    _intsetGetEncoded(is, length - 1, curenc))}})

\* the value set at the beginning or at the end, and the length updated
UpgradePlace(is, prepend, value) ==
    [_intsetSet(is, IF prepend = 1 THEN 0 ELSE is.length, value)
        EXCEPT !.length = @ + 1]

\* intsetUpgradeAndAdd once newenc and prepend are known
UpgradeTo(is, value, newenc, prepend) ==
    UpgradePlace(
        UpgradeLoop(intsetResize([is EXCEPT !.encoding = newenc], is.length + 1),
                    is.length, prepend, is.encoding),
        prepend, value)

\* intsetUpgradeAndAdd that always puts the value at the end
UpgradeAndAddAppend(is, value) ==
    UpgradeTo(is, value, _intsetValueEncoding(value), 0)

\* intsetUpgradeAndAdd that always takes the widest encoding
UpgradeAndAddWidest(is, value) ==
    UpgradeTo(is, value, INTSET_ENC_INT64, Prepend(value))

intsetUpgradeAndAdd(is, value) ==
    UpgradeTo(is, value, _intsetValueEncoding(value), Prepend(value))

\* memmove of the n limbs that follow the first f to behind the first t
MoveLimbs(contents, f, t, n) ==
    SubSeq(contents, 1, t) \o SubSeq(contents, f + 1, f + n)
    \o SubSeq(contents, t + n + 1, Len(contents))

\* intsetMoveTail that moves nothing
intsetMoveTailNot(is, from, to) == is

intsetMoveTail(is, from, to) ==
    [is EXCEPT !.contents =
        MoveLimbs(@, from * EncLimbs(is.encoding), to * EncLimbs(is.encoding),
                  (is.length - from) * EncLimbs(is.encoding))]

\* if (pos < intrev32ifbe(is->length)) intsetMoveTail(is,pos,pos+1);
AddMove(is, pos) ==
    IF pos < is.length THEN intsetMoveTail(is, pos, pos + 1) ELSE is

\* _intsetSet(is,pos,value); is->length = is->length+1;
AddPlace(is, pos, value) == [_intsetSet(is, pos, value) EXCEPT !.length = @ + 1]

\* AddSearched that inserts a value intsetSearch has found
AddSearchedAnyway(is, value, r) ==
    [is |-> AddPlace(AddMove(intsetResize(is, is.length + 1), r.pos),
                     r.pos, value),
     success |-> 1]

\* intsetAdd once intsetSearch has returned r
AddSearched(is, value, r) ==
    IF r.found = 1 THEN [is |-> is, success |-> 0]
    ELSE [is |-> AddPlace(AddMove(intsetResize(is, is.length + 1), r.pos),
                          r.pos, value),
          success |-> 1]

\* is is the intset returned, success is *success
intsetAdd(is, value) ==
    IF _intsetValueEncoding(value) > is.encoding
    THEN [is |-> intsetUpgradeAndAdd(is, value), success |-> 1]
    ELSE AddSearched(is, value, intsetSearch(is, value))

\* the tail moved over the value at pos and the length updated
RemoveAt(is, pos) ==
    [intsetResize(IF pos < is.length - 1
                  THEN intsetMoveTail(is, pos + 1, pos) ELSE is,
                  is.length - 1)
        EXCEPT !.length = @ - 1]

\* RemoveSearched that goes back to INT16 when no value is left
RemoveSearchedDowngrade(is, r) ==
    IF r.found = 0 THEN [is |-> is, success |-> 0]
    ELSE IF is.length = 1 THEN [is |-> intsetNew, success |-> 1]
    ELSE [is |-> RemoveAt(is, r.pos), success |-> 1]

\* intsetRemove once intsetSearch has returned r
RemoveSearched(is, r) ==
    IF r.found = 1 THEN [is |-> RemoveAt(is, r.pos), success |-> 1]
    ELSE [is |-> is, success |-> 0]

intsetRemove(is, value) ==
    IF _intsetValueEncoding(value) <= is.encoding
    THEN RemoveSearched(is, intsetSearch(is, value))
    ELSE [is |-> is, success |-> 0]

intsetFind(is, value) ==
    IF /\ _intsetValueEncoding(value) <= is.encoding
       /\ intsetSearch(is, value).found = 1
    THEN 1 ELSE 0

\* value is *value, which intsetGet leaves alone when pos is out of range
intsetGet(is, pos, value) ==
    IF pos < is.length THEN [ret |-> 1, value |-> _intsetGet(is, pos)]
    ELSE [ret |-> 0, value |-> value]

intsetLen(is) == is.length

NoIntsetLog ==
    [op |-> "new", value |-> LLOfInt(0), valenc |-> INTSET_ENC_INT16,
     ret |-> 0, before |-> intsetNew, was |-> FALSE, maxenc |-> INTSET_ENC_INT16, succ |-> 0, onlyAdds |-> TRUE]

NoIter == [live |-> FALSE, table |-> 0, index |-> 0 - 1, safe |-> 0,
           entry |-> NULL, nextEntry |-> NULL, fingerprint |-> LLOfInt(0)]
NoItLog == [started |-> FALSE, done |-> FALSE, clean |-> TRUE,
            snap |-> {}, yielded |-> <<>>]
NoScanLog == [active |-> FALSE, done |-> FALSE, missing |-> {}, stable |-> {},
              keysChanged |-> FALSE, spurious |-> FALSE]

\* insC, otherC: since the creation of the unsafe iterator a new key was
\* inserted, another call was made; mutS, otherS, looked: since its first
\* dictNext an entry was added, replaced or deleted, a call other than dictFind
\* was made, dictFind was called on a rehashing dict
NoFpLog == [insC |-> FALSE, otherC |-> FALSE, mutS |-> FALSE, otherS |-> FALSE,
            looked |-> FALSE, started |-> FALSE, released |-> FALSE]

ExpandSizes == {1, DICT_HT_INITIAL_SIZE, 2 * DICT_HT_INITIAL_SIZE, MaxExpand}
IterExpandSizes == {1, DICT_HT_INITIAL_SIZE, MaxIterExpand}

\* dictCreate: a dict after _dictInit
dictCreate == _dictInit

\* ---------------------------------------------------------------------
\* The hash object of t_hash.c (src/unnamed/part_001).
\*
\* A string is the decimal numeral of an integer, so sdslen is the number
\* of digits and one more for the sign.  The flags of hashTypeSet only say who frees the
\* strings passed in; ownership is not part of the state, so they are left
\* out.  The packed list (ziplist.c) is an interface of the specification:
\* a sequence of strings, a pointer into it being a position 1..Len + 1 or
\* NULL.
\* ---------------------------------------------------------------------
RECURSIVE sdslen(_)
sdslen(s) ==
    IF s < 0 THEN 1 + sdslen(0 - s)
    ELSE IF s < DecimalBase THEN 1 ELSE 1 + sdslen(s \div DecimalBase)

ziplistNew == << >>

ziplistLen(zl) == Len(zl)

ziplistIndex(zl, index) == IF index < Len(zl) THEN index + 1 ELSE NULL

ziplistNext(zl, p) == IF p < Len(zl) THEN p + 1 ELSE NULL

ziplistGet(zl, p) == zl[p]

\* compares the entry at p, then every (skip + 1)-th entry after it
RECURSIVE ziplistFind(_, _, _, _)
ziplistFind(zl, p, vstr, skip) ==
    IF p > Len(zl) THEN NULL
    ELSE IF zl[p] = vstr THEN p
    ELSE ziplistFind(zl, p + skip + 1, vstr, skip)

\* after the deletion p points to the entry that followed, or to the end
ziplistDelete(zl, p) ==
    [zl |-> SubSeq(zl, 1, p - 1) \o SubSeq(zl, p + 1, Len(zl)), p |-> p]

\* inserts s in front of the entry at p; p may be the end of the list
ziplistInsert(zl, p, s) ==
    SubSeq(zl, 1, p - 1) \o <<s>> \o SubSeq(zl, p, Len(zl))

\* ZIPLIST_TAIL is the only direction t_hash.c pushes in
ziplistPush(zl, s) == Append(zl, s)

OBJ_ENCODING_ZIPLIST == "OBJ_ENCODING_ZIPLIST"
OBJ_ENCODING_HT == "OBJ_ENCODING_HT"
C_OK == "C_OK"
C_ERR == "C_ERR"

createHashObject ==
    [encoding |-> OBJ_ENCODING_ZIPLIST, ptr |-> ziplistNew, panic |-> "none"]

serverPanic(O, msg) == [O EXCEPT !.panic = msg]

\* hashTypeGetFromZiplist: fptr is the field's position, vptr the value's
GetFromZiplistAt(O, fptr) ==
    IF fptr = NULL THEN [o |-> O, ret |-> 0 - 1, vstr |-> NULL]
    ELSE IF ziplistNext(O.ptr, fptr) = NULL
         THEN [o |-> serverPanic(O, "vptr != NULL"), ret |-> 0 - 1, vstr |-> NULL]
         ELSE [o |-> O, ret |-> 0,
               vstr |-> ziplistGet(O.ptr, ziplistNext(O.ptr, fptr))]

hashTypeGetFromZiplist(O, field) ==
    IF ziplistIndex(O.ptr, 0) = NULL
    THEN GetFromZiplistAt(O, NULL)
    ELSE GetFromZiplistAt(O, ziplistFind(O.ptr, ziplistIndex(O.ptr, 0), field, 1))

\* dictFind may run a step of the rehash, so the object changes as well
\* isnull: the pointer returned is NULL, which no stored string is
GetFromHashTableEntry(O, r) ==
    [o |-> [O EXCEPT !.ptr = r.D], isnull |-> r.he = NULL,
     value |-> IF r.he = NULL THEN NULL ELSE r.D.heap[r.he].val]

hashTypeGetFromHashTable(O, field) == GetFromHashTableEntry(O, dictFind(O.ptr, field))

GetValueZiplist(r) ==
    [o |-> r.o, ret |-> IF r.ret = 0 THEN C_OK ELSE C_ERR, vstr |-> r.vstr]

GetValueHashTable(r) ==
    [o |-> r.o, ret |-> IF ~r.isnull THEN C_OK ELSE C_ERR, vstr |-> r.value]

hashTypeGetValue(O, field) ==
    IF O.encoding = OBJ_ENCODING_ZIPLIST
    THEN GetValueZiplist(hashTypeGetFromZiplist(O, field))
    ELSE IF O.encoding = OBJ_ENCODING_HT
    THEN GetValueHashTable(hashTypeGetFromHashTable(O, field))
    ELSE [o |-> serverPanic(O, "Unknown hash encoding"), ret |-> C_ERR, vstr |-> NULL]

ExistsZiplist(r) == [o |-> r.o, ret |-> IF r.ret = 0 THEN 1 ELSE 0]

ExistsHashTable(r) == [o |-> r.o, ret |-> IF ~r.isnull THEN 1 ELSE 0]

hashTypeExists(O, field) ==
    IF O.encoding = OBJ_ENCODING_ZIPLIST
    THEN ExistsZiplist(hashTypeGetFromZiplist(O, field))
    ELSE IF O.encoding = OBJ_ENCODING_HT
    THEN ExistsHashTable(hashTypeGetFromHashTable(O, field))
    ELSE [o |-> serverPanic(O, "Unknown hash encoding"), ret |-> 0]

\* variant: the entries of the first table only
hashTypeLengthFirstTable(O) ==
    IF O.encoding = OBJ_ENCODING_ZIPLIST THEN ziplistLen(O.ptr) \div 2
    ELSE O.ptr.ht[0].used

hashTypeLength(O) ==
    IF O.encoding = OBJ_ENCODING_ZIPLIST THEN ziplistLen(O.ptr) \div 2
    ELSE dictSize(O.ptr)

hashTypeInitIterator(subject) ==
    [encoding |-> subject.encoding, fptr |-> NULL, vptr |-> NULL, de |-> NULL,
     di |-> IF subject.encoding = OBJ_ENCODING_HT THEN dictGetIterator ELSE NoIter]

\* the ziplist branch of hashTypeNext, fptr being the next field's position
NextPairAt(O, hi, fptr) ==
    IF fptr = NULL THEN [o |-> O, hi |-> hi, ret |-> C_ERR]
    ELSE IF ziplistNext(O.ptr, fptr) = NULL
         THEN [o |-> serverPanic(O, "vptr != NULL"), hi |-> hi, ret |-> C_ERR]
         ELSE [o |-> O, ret |-> C_OK,
               hi |-> [hi EXCEPT !.fptr = fptr, !.vptr = ziplistNext(O.ptr, fptr)]]

NextEntryOf(O, hi, r) ==
    [o |-> [O EXCEPT !.ptr = r.D],
     hi |-> [hi EXCEPT !.di = r.it, !.de = r.ret],
     ret |-> IF r.ret = NULL THEN C_ERR ELSE C_OK]

hashTypeNext(O, hi) ==
    IF hi.encoding = OBJ_ENCODING_ZIPLIST
    THEN NextPairAt(O, hi, IF hi.fptr = NULL THEN ziplistIndex(O.ptr, 0)
                           ELSE ziplistNext(O.ptr, hi.vptr))
    ELSE NextEntryOf(O, hi, dictNext(O.ptr, hi.di))

OBJ_HASH_KEY == "OBJ_HASH_KEY"
OBJ_HASH_VALUE == "OBJ_HASH_VALUE"

\* variant: the field is given whatever is asked for
hashTypeCurrentObjectField(O, hi, what) ==
    IF hi.encoding = OBJ_ENCODING_ZIPLIST THEN ziplistGet(O.ptr, hi.fptr)
    ELSE O.ptr.heap[hi.de].key

\* sdsnewlen and sdsfromlonglong both give back the string that was stored
hashTypeCurrentObjectNewSds(O, hi, what) ==
    IF hi.encoding = OBJ_ENCODING_ZIPLIST
    THEN ziplistGet(O.ptr, IF what = OBJ_HASH_KEY THEN hi.fptr ELSE hi.vptr)
    ELSE IF what = OBJ_HASH_KEY THEN O.ptr.heap[hi.de].key ELSE O.ptr.heap[hi.de].val

\* the while loop of hashTypeConvertZiplist and what follows it
RECURSIVE ConvertLoop(_, _, _)
ConvertAdded(O, hi, a) ==
    IF a.ret /= DICT_OK THEN serverPanic(O, "Ziplist corruption detected")
    ELSE ConvertLoop(O, hi, a.D)

ConvertNext(O, n, dict) ==
    IF n.o.panic /= "none" THEN n.o
    ELSE IF n.ret = C_ERR
    THEN [O EXCEPT !.encoding = OBJ_ENCODING_HT, !.ptr = dict]
    ELSE ConvertAdded(O, n.hi,
             dictAdd(dict, hashTypeCurrentObjectNewSds(O, n.hi, OBJ_HASH_KEY),
                           hashTypeCurrentObjectNewSds(O, n.hi, OBJ_HASH_VALUE)))

ConvertLoop(O, hi, dict) == ConvertNext(O, hashTypeNext(O, hi), dict)

hashTypeConvertZiplist(O, enc) ==
    IF enc = OBJ_ENCODING_ZIPLIST THEN O
    ELSE IF enc = OBJ_ENCODING_HT
    THEN ConvertLoop(O, hashTypeInitIterator(O), dictCreate)
    ELSE serverPanic(O, "Unknown hash encoding")

\* variant: a hash table is given back an empty ziplist when asked to
hashTypeConvertBack(O, enc) ==
    IF O.encoding = OBJ_ENCODING_ZIPLIST THEN hashTypeConvertZiplist(O, enc)
    ELSE [O EXCEPT !.encoding = enc,
                   !.ptr = IF enc = OBJ_ENCODING_ZIPLIST THEN ziplistNew ELSE @]

hashTypeConvert(O, enc) ==
    IF O.encoding = OBJ_ENCODING_ZIPLIST THEN hashTypeConvertZiplist(O, enc)
    ELSE IF O.encoding = OBJ_ENCODING_HT THEN serverPanic(O, "Not implemented")
    ELSE serverPanic(O, "Unknown hash encoding")

\* a failed assert of dict.c ends the process as a panic does
ReleasedObject(O, D) ==
    IF D.fault /= "none" THEN serverPanic([O EXCEPT !.ptr = D], D.fault)
    ELSE [O EXCEPT !.ptr = D]

hashTypeReleaseIterator(O, hi) ==
    IF hi.encoding = OBJ_ENCODING_HT
    THEN ReleasedObject(O, dictReleaseIterator(O.ptr, hi.di))
    ELSE O

\* the string added to the reply is the one hashTypeCurrentObjectNewSds gives
addHashIteratorCursorToReply(reply, O, hi, what) ==
    Append(reply, hashTypeCurrentObjectNewSds(O, hi, what))

\* flags is the set of OBJ_HASH_KEY, OBJ_HASH_VALUE the command replies with
HgetallPair(reply, O, hi, flags) ==
    IF flags = {OBJ_HASH_KEY, OBJ_HASH_VALUE}
    THEN addHashIteratorCursorToReply(
             addHashIteratorCursorToReply(reply, O, hi, OBJ_HASH_KEY),
             O, hi, OBJ_HASH_VALUE)
    ELSE addHashIteratorCursorToReply(reply, O, hi, The(flags))

\* the while loop of genericHgetallCommand and the release after it
RECURSIVE HgetallLoop(_, _, _, _)
HgetallNext(n, flags, reply) ==
    IF n.ret = C_ERR
    THEN [o |-> hashTypeReleaseIterator(n.o, n.hi), reply |-> reply]
    ELSE HgetallLoop(n.o, n.hi, flags, HgetallPair(reply, n.o, n.hi, flags))

HgetallLoop(O, hi, flags, reply) == HgetallNext(hashTypeNext(O, hi), flags, reply)

\* serverAssert(count == length)
HgetallChecked(r, length) ==
    [o |-> IF r.o.panic = "none" /\ Len(r.reply) /= length
           THEN serverPanic(r.o, "count == length") ELSE r.o,
     reply |-> r.reply]

genericHgetall(O, flags) ==
    HgetallChecked(HgetallLoop(O, hashTypeInitIterator(O), flags, << >>),
                   hashTypeLength(O) * Cardinality(flags))

\* argv[start..end] are the strings of the command
hashTypeTryConversion(O, argv) ==
    IF O.encoding /= OBJ_ENCODING_ZIPLIST THEN O
    ELSE IF \E i \in DOMAIN argv : sdslen(argv[i]) > hash_max_ziplist_value
    THEN hashTypeConvert(O, OBJ_ENCODING_HT)
    ELSE O

\* "Delete value", "Insert new value": vptr is the old value's position
ReplaceValueAt(del, value) == ziplistInsert(del.zl, del.p, value)

\* variant: the new value is inserted and the old one is left behind it
SetValueKeepOld(zl, vptr, value) == ziplistInsert(zl, vptr, value)

SetValueDeleteOld(zl, vptr, value) == ReplaceValueAt(ziplistDelete(zl, vptr), value)

\* the check that closes the ziplist branch of hashTypeSet
SetCheckLength(O, update) ==
    [o |-> IF hashTypeLength(O) > hash_max_ziplist_entries
           THEN hashTypeConvert(O, OBJ_ENCODING_HT) ELSE O,
     update |-> update]

SetZiplist(O, fptr, field, value) ==
    IF fptr /= NULL
    THEN IF ziplistNext(O.ptr, fptr) = NULL
         THEN [o |-> serverPanic(O, "vptr != NULL"), update |-> 0]
         ELSE SetCheckLength(
                  [O EXCEPT !.ptr = SetValueDeleteOld(O.ptr, ziplistNext(O.ptr, fptr), value)],
                  1)
    ELSE SetCheckLength(
             [O EXCEPT !.ptr = ziplistPush(ziplistPush(O.ptr, field), value)], 0)

\* the hash table branch of hashTypeSet, r being what dictFind returned
SetHashTable(O, r, field, value) ==
    IF r.he /= NULL
    THEN [o |-> [O EXCEPT !.ptr = dictSetVal(r.D, r.he, value)], update |-> 1]
    ELSE [o |-> [O EXCEPT !.ptr = dictAdd(r.D, field, value).D], update |-> 0]

hashTypeSet(O, field, value) ==
    IF O.encoding = OBJ_ENCODING_ZIPLIST
    THEN SetZiplist(O, IF ziplistIndex(O.ptr, 0) = NULL THEN NULL
                       ELSE ziplistFind(O.ptr, ziplistIndex(O.ptr, 0), field, 1),
                    field, value)
    ELSE IF O.encoding = OBJ_ENCODING_HT
    THEN SetHashTable(O, dictFind(O.ptr, field), field, value)
    ELSE [o |-> serverPanic(O, "Unknown hash encoding"), update |-> 0]

\* ---- who owns the strings hashTypeSet is handed ----
HASH_SET_TAKE_FIELD == 1
HASH_SET_TAKE_VALUE == 2
HASH_SET_COPY == 0

\* the pointers of one call: "field" and "value" are the sds strings passed
\* in, "old" is the value the dict entry held; held are the pointers the hash
\* stores, copied the strings it stores a copy of, freed the calls of sdsfree
OwnedStart ==
    [field |-> "field", value |-> "value", held |-> {}, copied |-> {},
     freed |-> <<>>]

\* ziplistInsert and ziplistPush write the bytes of the string into the list
SetZiplistOwned(st, update) ==
    [st EXCEPT !.copied = IF update = 1 THEN {"value"} ELSE {"field", "value"}]

\* if (de) { sdsfree(dictGetVal(de)); ... } else { sds f,v; ... }
SetHashTableOwned(st, de, flags) ==
    IF de /= NULL
    THEN IF BitAnd(flags, HASH_SET_TAKE_VALUE) /= 0
         THEN [st EXCEPT !.freed = Append(@, "old"), !.held = @ \cup {"value"},
                         !.value = "NULL"]
         ELSE [st EXCEPT !.freed = Append(@, "old"), !.copied = @ \cup {"value"}]
    ELSE [st EXCEPT
            !.held = @ \cup (IF BitAnd(flags, HASH_SET_TAKE_FIELD) /= 0
                             THEN {"field"} ELSE {})
                       \cup (IF BitAnd(flags, HASH_SET_TAKE_VALUE) /= 0
                             THEN {"value"} ELSE {}),
            !.copied = @ \cup (IF BitAnd(flags, HASH_SET_TAKE_FIELD) /= 0
                               THEN {} ELSE {"field"})
                         \cup (IF BitAnd(flags, HASH_SET_TAKE_VALUE) /= 0
                               THEN {} ELSE {"value"}),
            !.field = IF BitAnd(flags, HASH_SET_TAKE_FIELD) /= 0
                      THEN "NULL" ELSE @,
            !.value = IF BitAnd(flags, HASH_SET_TAKE_VALUE) /= 0
                      THEN "NULL" ELSE @]

\* the strings taken are freed whether the hash stores them or not
SetReleaseAlways(st, flags) ==
    [st EXCEPT !.freed =
        @ \o (IF BitAnd(flags, HASH_SET_TAKE_FIELD) /= 0
              THEN <<"field">> ELSE <<>>)
          \o (IF BitAnd(flags, HASH_SET_TAKE_VALUE) /= 0
              THEN <<"value">> ELSE <<>>)]

\* "Free SDS strings we did not referenced elsewhere if the flags want this
\* function to be responsible."
SetRelease(st, flags) ==
    [st EXCEPT !.freed =
        @ \o (IF BitAnd(flags, HASH_SET_TAKE_FIELD) /= 0 /\ st.field /= "NULL"
              THEN <<"field">> ELSE <<>>)
          \o (IF BitAnd(flags, HASH_SET_TAKE_VALUE) /= 0 /\ st.value /= "NULL"
              THEN <<"value">> ELSE <<>>)]

\* the strings of a call of hashTypeSet that answers r; found says whether
\* the hash table branch found the field
SetOwned(O, r, found, flags) ==
    IF r.o.panic /= "none" THEN OwnedStart
    ELSE IF O.encoding = OBJ_ENCODING_ZIPLIST
    THEN SetRelease(SetZiplistOwned(OwnedStart, r.update), flags)
    ELSE SetRelease(SetHashTableOwned(OwnedStart, found, flags), flags)

\* hashTypeSet with its flags: o and update as without them, own the
\* strings of the call
SetFlagsOf(O, r, field, flags) ==
    [r   |-> r,
     own |-> SetOwned(O, r, IF O.encoding = OBJ_ENCODING_HT
                            THEN dictFind(O.ptr, field).he ELSE NULL, flags)]

hashTypeSetFlags(O, field, value, flags) ==
    The({SetFlagsOf(O, r, field, flags) : r \in {hashTypeSet(O, field, value)}})

\* ---- HINCRBY ----
\* long long in the width of the model
LLONG_MAX == LONG_MAX
LLONG_MIN == 0 - LONG_MAX - 1

InLongLong(n) == n >= LLONG_MIN /\ n <= LLONG_MAX

\* what a long long holds when the result n does not fit
WrapLongLong(n) == ((n - LLONG_MIN) % WordMod) + LLONG_MIN

\* util.c: the numeral is read when its value fits a long long
string2ll(str) == [ok |-> InLongLong(str), value |-> IF InLongLong(str) THEN str ELSE 0]

\* sds.c: the numeral of the value
sdsfromlonglong(value) == value

\* the test of the increment looking at the upper end only
HincrOverflowsAbove(oldvalue, incr) ==
    [overflow |-> incr > 0 /\ oldvalue > 0
                  /\ incr > WrapLongLong(LLONG_MAX - oldvalue),
     evaluated |-> IF incr > 0 /\ oldvalue > 0 THEN {LLONG_MAX - oldvalue}
                   ELSE {}]

\* (incr < 0 && oldvalue < 0 && incr < (LLONG_MIN-oldvalue)) ||
\* (incr > 0 && oldvalue > 0 && incr > (LLONG_MAX-oldvalue));
\* evaluated are the differences the test computed
HincrOverflows(oldvalue, incr) ==
    IF incr < 0 /\ oldvalue < 0
    THEN [overflow |-> incr < WrapLongLong(LLONG_MIN - oldvalue),
          evaluated |-> {LLONG_MIN - oldvalue}]
    ELSE IF incr > 0 /\ oldvalue > 0
    THEN [overflow |-> incr > WrapLongLong(LLONG_MAX - oldvalue),
          evaluated |-> {LLONG_MAX - oldvalue}]
    ELSE [overflow |-> FALSE, evaluated |-> {}]

\* value += incr; new = sdsfromlonglong(value); hashTypeSet(...,
\* HASH_SET_TAKE_VALUE); addReplyLongLong(c,value);
HincrStore(O, field, oldvalue, incr, t) ==
    [o |-> hashTypeSetFlags(O, field,
                            sdsfromlonglong(WrapLongLong(oldvalue + incr)),
                            HASH_SET_TAKE_VALUE).r.o,
     reply |-> "integer", value |-> WrapLongLong(oldvalue + incr),
     oldvalue |-> oldvalue, stored |-> TRUE,
     evaluated |-> t.evaluated \cup {oldvalue + incr}]

HincrTested(O, field, oldvalue, incr, t) ==
    IF t.overflow
    THEN [o |-> O, reply |-> "increment or decrement would overflow",
          value |-> 0, oldvalue |-> oldvalue, stored |-> FALSE,
          evaluated |-> t.evaluated]
    ELSE HincrStore(O, field, oldvalue, incr, t)

\* g is what hashTypeGetValue answered, p what string2ll made of it
HincrParsed(g, p, field, incr) ==
    IF g.ret = C_OK /\ ~p.ok
    THEN [o |-> g.o, reply |-> "hash value is not an integer", value |-> 0,
          oldvalue |-> 0, stored |-> FALSE, evaluated |-> {}]
    ELSE HincrTested(g.o, field, IF g.ret = C_OK THEN p.value ELSE 0, incr,
                     HincrOverflows(IF g.ret = C_OK THEN p.value ELSE 0, incr))

HincrGot(g, field, incr) ==
    HincrParsed(g, string2ll(IF g.ret = C_OK THEN g.vstr ELSE 0), field, incr)

\* hincrbyCommand once incr is read and the hash object is looked up
hincrby(O, field, incr) ==
    The({HincrGot(g, field, incr) : g \in {hashTypeGetValue(O, field)}})

\* server.c: more than the initial number of slots, filled below one tenth
htNeedsResize(D) ==
    /\ D.ht[0].size + D.ht[1].size > DICT_HT_INITIAL_SIZE
    /\ (dictSize(D) * 100) \div (D.ht[0].size + D.ht[1].size) < HASHTABLE_MIN_FILL

\* "Delete the key", "Delete the value"
DeletePairAt(del) == ziplistDelete(del.zl, del.p).zl

DeleteZiplist(O, fptr) ==
    IF fptr = NULL THEN [o |-> O, deleted |-> 0]
    ELSE [o |-> [O EXCEPT !.ptr = DeletePairAt(ziplistDelete(O.ptr, fptr))],
          deleted |-> 1]

\* DeleteHashTable that asks for the resize after every delete
DeleteHashTableAlwaysResize(O, r) ==
    IF r.ret = DICT_OK
    THEN [o |-> [O EXCEPT !.ptr = dictResize(r.D).D], deleted |-> 1]
    ELSE [o |-> [O EXCEPT !.ptr = r.D], deleted |-> 0]

DeleteHashTable(O, r) ==
    IF r.ret = DICT_OK
    THEN [o |-> [O EXCEPT !.ptr = IF htNeedsResize(r.D) THEN dictResize(r.D).D ELSE r.D],
          deleted |-> 1]
    ELSE [o |-> [O EXCEPT !.ptr = r.D], deleted |-> 0]

hashTypeDelete(O, field) ==
    IF O.encoding = OBJ_ENCODING_ZIPLIST
    THEN DeleteZiplist(O, IF ziplistIndex(O.ptr, 0) = NULL THEN NULL
                          ELSE ziplistFind(O.ptr, ziplistIndex(O.ptr, 0), field, 1))
    ELSE IF O.encoding = OBJ_ENCODING_HT
    THEN DeleteHashTable(O, dictDelete(O.ptr, field))
    ELSE [o |-> serverPanic(O, "Unknown hash encoding"), deleted |-> 0]

NoHashLog == [op |-> "none", ret |-> NULL, vstr |-> NULL,
              want |-> NULL, wantstr |-> NULL, len |-> 0,
              encoding |-> OBJ_ENCODING_ZIPLIST, long |-> FALSE]

Running == d.fault = "none"

ModelSet(m, key, val) ==
    [x \in DOMAIN m \cup {key} |-> IF x = key THEN val ELSE m[x]]
ModelDel(m, key) == [x \in DOMAIN m \ {key} |-> m[x]]

Init ==
    /\ d = _dictInit
    /\ dict_hash_function_seed \in 0..MaxSeed
    /\ dict_can_resize = 1
    /\ iter = NoIter
    /\ iter2 = NoIter
    /\ cursor = 0
    /\ model = [x \in {} |-> NoVal]
    /\ itlog = NoItLog
    /\ scanlog = NoScanLog
    /\ fplog = NoFpLog
    /\ iset = intsetNew
    /\ iset_model = {}
    /\ iset_log = NoIntsetLog
    /\ o = createHashObject
    /\ o_model = [x \in {} |-> NoVal]
    /\ o_log = NoHashLog

\* what a call that is neither dictNext nor dictScan does to the histories
\* of the iteration and of the scan in progress
Unclean == [NoItLog EXCEPT !.started = TRUE, !.clean = FALSE]

Touch(keyChange) ==
    /\ itlog' = IF itlog.started /\ ~itlog.done THEN Unclean ELSE itlog
    /\ scanlog' = IF scanlog.active
                  THEN [scanlog EXCEPT !.keysChanged = @ \/ keyChange]
                  ELSE NoScanLog

\* has dictNext been called on the iterator?
IterStarted(it) == ~(it.index = 0 - 1 /\ it.table = 0)

\* what a call of the given kind does to the history of the unsafe iterator
FpTouch(kind) ==
    fplog' = IF iter.live /\ iter.safe = 0 /\ ~fplog.released
             THEN [fplog EXCEPT
                     !.insC = @ \/ kind = "insert",
                     !.otherC = @ \/ kind /= "insert",
                     !.mutS = @ \/ (IterStarted(iter) /\
                                    kind \in {"insert", "replace", "delete"}),
                     !.otherS = @ \/ (IterStarted(iter) /\ kind = "other"),
                     !.looked = @ \/ (IterStarted(iter) /\ kind = "find"
                                      /\ dictIsRehashing(d))]
             ELSE NoFpLog

\* the same for a delete: deleting the entry the iterator has just returned
\* keeps the iteration clean
DeleteTouch(key) ==
    /\ itlog' = IF /\ itlog.started /\ ~itlog.done
                   /\ ~(iter.entry /= NULL /\ d.heap[iter.entry].alloc
                        /\ d.heap[iter.entry].key = key)
                THEN Unclean ELSE itlog
    /\ scanlog' = IF scanlog.active
                  THEN [scanlog EXCEPT
                          !.missing = @ \ {key},
                          !.stable = @ \ {key},
                          !.keysChanged = @ \/ (key \in DOMAIN model)]
                  ELSE NoScanLog

CallDictAdd(key, val) ==
    /\ Running /\ HasFreeCell(d.heap)
    /\ d' = dictAdd(d, key, val).D
    /\ model' = IF key \in DOMAIN model THEN model
                ELSE ModelSet(model, key, val)
    /\ Touch(key \notin DOMAIN model)
    /\ FpTouch(IF key \in DOMAIN model THEN "other" ELSE "insert")
    /\ UNCHANGED nonDictVars
    /\ UNCHANGED <<dict_hash_function_seed, dict_can_resize, iter, cursor>>

CallDictReplace(key, val) ==
    /\ Running /\ HasFreeCell(d.heap)
    /\ d' = dictReplace(d, key, val).D
    /\ model' = ModelSet(model, key, val)
    /\ Touch(key \notin DOMAIN model)
    /\ FpTouch(IF key \in DOMAIN model THEN "replace" ELSE "insert")
    /\ UNCHANGED nonDictVars
    /\ UNCHANGED <<dict_hash_function_seed, dict_can_resize, iter, cursor>>

CallDictAddOrFind(key) ==
    /\ Running /\ HasFreeCell(d.heap)
    /\ d' = dictAddOrFind(d, key).D
    /\ model' = IF key \in DOMAIN model THEN model
                ELSE ModelSet(model, key, NoVal)
    /\ Touch(key \notin DOMAIN model)
    /\ FpTouch(IF key \in DOMAIN model THEN "other" ELSE "insert")
    /\ UNCHANGED nonDictVars
    /\ UNCHANGED <<dict_hash_function_seed, dict_can_resize, iter, cursor>>

CallDictDelete(key) ==
    /\ Running
    /\ d' = dictDelete(d, key).D
    /\ model' = ModelDel(model, key)
    /\ DeleteTouch(key)
    /\ FpTouch(IF key \in DOMAIN model THEN "delete" ELSE "other")
    /\ UNCHANGED nonDictVars
    /\ UNCHANGED <<dict_hash_function_seed, dict_can_resize, iter, cursor>>

\* entry = dictUnlink(d, key); ... dictFreeUnlinkedEntry(d, entry);
UnlinkAndFree(r) == dictFreeUnlinkedEntry(r.D, r.he)

CallDictUnlink(key) ==
    /\ Running
    /\ d' = UnlinkAndFree(dictUnlink(d, key))
    /\ model' = ModelDel(model, key)
    /\ DeleteTouch(key)
    /\ FpTouch(IF key \in DOMAIN model THEN "delete" ELSE "other")
    /\ UNCHANGED nonDictVars
    /\ UNCHANGED <<dict_hash_function_seed, dict_can_resize, iter, cursor>>

CallDictFind(key) ==
    /\ Running
    /\ d' = dictFind(d, key).D
    /\ Touch(FALSE)
    /\ FpTouch("find")
    /\ UNCHANGED nonDictVars
    /\ UNCHANGED <<dict_hash_function_seed, dict_can_resize, iter, cursor,
                   model>>

CallDictExpand(size) ==
    /\ Running
    /\ d' = dictExpand(d, size).D
    /\ Touch(FALSE)
    /\ FpTouch("other")
    /\ UNCHANGED nonDictVars
    /\ UNCHANGED <<dict_hash_function_seed, dict_can_resize, iter, cursor,
                   model>>

CallDictResize ==
    /\ Running
    /\ d' = dictResize(d).D
    /\ Touch(FALSE)
    /\ FpTouch("other")
    /\ UNCHANGED nonDictVars
    /\ UNCHANGED <<dict_hash_function_seed, dict_can_resize, iter, cursor,
                   model>>

CallDictRehash(n) ==
    /\ Running
    /\ d' = dictRehash(d, n).D
    /\ Touch(FALSE)
    /\ FpTouch("other")
    /\ UNCHANGED nonDictVars
    /\ UNCHANGED <<dict_hash_function_seed, dict_can_resize, iter, cursor,
                   model>>

CallDictRehashMilliseconds(slices) ==
    /\ Running
    /\ d' = dictRehashMilliseconds(d, slices).D
    /\ Touch(FALSE)
    /\ FpTouch("other")
    /\ UNCHANGED nonDictVars
    /\ UNCHANGED <<dict_hash_function_seed, dict_can_resize, iter, cursor,
                   model>>

\* every entry chained in a bucket of one of the two tables
ChainSet(heap, he) ==
    {ChainEntries(heap, he)[j] : j \in 1..Len(ChainEntries(heap, he))}
TableEntries(D, t) ==
    UNION {ChainSet(D.heap, D.ht[t].table[i]) : i \in 0..(D.ht[t].size - 1)}
Chained(D) == TableEntries(D, 0) \cup TableEntries(D, 1)

\* the entries random() can select: those of the buckets from rehashidx on
\* of a rehashing dict, those of ht[0] otherwise
RandomEntryOf(D1) == [D |-> D1, hes |-> Chained(D1)]

dictGetRandomKey(D) ==
    IF dictSize(D) = 0 THEN [D |-> D, hes |-> {NULL}]
    ELSE RandomEntryOf(StepIfRehashing(D))

(* --------------------------- dictGetSomeKeys --------------------------- *)
\* random(): the k-th value of the stream the seeds r0 and r1 stand for
random(r0, r1, k) == r0 + k * r1

\* for (j = 0; j < count; j++) if (dictIsRehashing(d)) _dictRehashStep(d);
\* else break;
RECURSIVE SomeKeysRehash(_, _)
SomeKeysRehash(D, j) ==
    IF j = 0 \/ ~dictIsRehashing(D) THEN D
    ELSE The({SomeKeysRehash(D1, j - 1) : D1 \in {_dictRehashStep(D)}})

\* the walk of the sampling loop: i the bucket index, des the entries
\* written so far, rk the values taken from random(), steps the iterations
\* of the while begun, fault a bucket read outside its table
SomeKeysStart(i, maxsteps) ==
    [i |-> i, emptylen |-> 0, des |-> <<>>, maxsteps |-> maxsteps, rk |-> 1,
     steps |-> 0, fault |-> FALSE, returned |-> FALSE]

\* while (he) { *des = he; des++; he = he->next; stored++;
\*              if (stored == count) return stored; }
RECURSIVE SomeKeysCollect(_, _, _, _)
SomeKeysCollect(D, st, he, count) ==
    IF he = NULL THEN st
    ELSE IF Len(st.des) + 1 = count
    THEN [st EXCEPT !.des = Append(@, he), !.returned = TRUE]
    ELSE SomeKeysCollect(D, [st EXCEPT !.des = Append(@, he)],
                         D.heap[he].next, count)

\* the bucket i of table j has been found in range
SomeKeysBucket(D, st, j, count, maxsizemask, r0, r1) ==
    IF st.i \notin DOMAIN D.ht[j].table THEN [st EXCEPT !.fault = TRUE]
    ELSE IF D.ht[j].table[st.i] = NULL
    THEN IF st.emptylen + 1 >= 5 /\ st.emptylen + 1 > count
         THEN [st EXCEPT !.i = BitAnd(random(r0, r1, st.rk) % WordMod,
                                      maxsizemask),
                         !.rk = @ + 1, !.emptylen = 0]
         ELSE [st EXCEPT !.emptylen = @ + 1]
    ELSE SomeKeysCollect(D, [st EXCEPT !.emptylen = 0], D.ht[j].table[st.i],
                         count)

\* the bucket read whatever the size of table j
SomeKeysInRangeUnchecked(D, st, j, count, maxsizemask, r0, r1) ==
    SomeKeysBucket(D, st, j, count, maxsizemask, r0, r1)

\* if (i >= d->ht[j].size) continue;
SomeKeysInRange(D, st, j, count, maxsizemask, r0, r1) ==
    IF st.i >= D.ht[j].size THEN st
    ELSE SomeKeysBucket(D, st, j, count, maxsizemask, r0, r1)

\* the body of for (j = 0; j < tables; j++)
SomeKeysTable(D, st, j, tables, count, maxsizemask, r0, r1) ==
    IF tables = 2 /\ j = 0 /\ st.i < D.rehashidx
    THEN IF st.i >= D.ht[1].size
         THEN SomeKeysInRange(D, [st EXCEPT !.i = D.rehashidx], j, count,
                              maxsizemask, r0, r1)
         ELSE st
    ELSE SomeKeysInRange(D, st, j, count, maxsizemask, r0, r1)

\* the for over the tables, then i = (i+1) & maxsizemask
SomeKeysSecond(D, st, tables, count, maxsizemask, r0, r1) ==
    IF st.returned \/ st.fault \/ tables = 1 THEN st
    ELSE SomeKeysTable(D, st, 1, tables, count, maxsizemask, r0, r1)

SomeKeysAdvance(st, maxsizemask) ==
    IF st.returned \/ st.fault THEN st
    ELSE [st EXCEPT !.i = BitAnd((st.i + 1) % WordMod, maxsizemask)]

SomeKeysStep(D, st, tables, count, maxsizemask, r0, r1) ==
    SomeKeysAdvance(
        The({SomeKeysSecond(D, st1, tables, count, maxsizemask, r0, r1) :
             st1 \in {SomeKeysTable(D, st, 0, tables, count, maxsizemask,
                                    r0, r1)}}),
        maxsizemask)

\* while(stored < count && maxsteps--)
RECURSIVE SomeKeysLoop(_, _, _, _, _, _, _)
SomeKeysLoop(D, st, tables, count, maxsizemask, r0, r1) ==
    IF st.returned \/ st.fault THEN st
    ELSE IF ~(Len(st.des) < count) THEN st
    ELSE IF st.maxsteps = 0 THEN st
    ELSE The({SomeKeysLoop(D, st1, tables, count, maxsizemask, r0, r1) :
              st1 \in {SomeKeysStep(D, [st EXCEPT !.maxsteps = @ - 1,
                                                  !.steps = @ + 1],
                                    tables, count, maxsizemask, r0, r1)}})

\* tables, maxsizemask and the first random point, once the rehash steps
\* are done
SomeKeysSample(D, count, maxsizemask, r0, r1) ==
    [D |-> D,
     st |-> SomeKeysLoop(D, SomeKeysStart(BitAnd(random(r0, r1, 0) % WordMod,
                                                 maxsizemask), count * 10),
                         IF dictIsRehashing(D) THEN 2 ELSE 1, count,
                         maxsizemask, r0, r1)]

SomeKeysMask(D) ==
    IF dictIsRehashing(D) /\ D.ht[0].sizemask < D.ht[1].sizemask
    THEN D.ht[1].sizemask ELSE D.ht[0].sizemask

SomeKeysCounted(D, count, r0, r1) ==
    The({SomeKeysSample(D1, count, SomeKeysMask(D1), r0, r1) :
         D1 \in {SomeKeysRehash(D, count)}})

\* st.des is what was written to des, Len(st.des) the value returned
dictGetSomeKeys(D, count, r0, r1) ==
    SomeKeysCounted(D, IF dictSize(D) < count THEN dictSize(D) ELSE count,
                    r0, r1)

CallDictGetSomeKeys(count, r0, r1) ==
    /\ Running
    /\ d' = dictGetSomeKeys(d, count, r0, r1).D
    /\ Touch(FALSE)
    /\ FpTouch("other")
    /\ UNCHANGED nonDictVars
    /\ UNCHANGED <<dict_hash_function_seed, dict_can_resize, iter, cursor,
                   model>>

\* he: the entry random() selected
CallDictGetRandomKey(he) ==
    /\ Running
    /\ he \in dictGetRandomKey(d).hes
    /\ d' = dictGetRandomKey(d).D
    /\ Touch(FALSE)
    /\ FpTouch("other")
    /\ UNCHANGED nonDictVars
    /\ UNCHANGED <<dict_hash_function_seed, dict_can_resize, iter, cursor,
                   model>>

CallDictGetSafeIterator ==
    /\ Running /\ ~iter.live
    /\ iter' = dictGetSafeIterator
    /\ itlog' = NoItLog
    /\ fplog' = NoFpLog
    /\ UNCHANGED nonDictVars
    /\ UNCHANGED <<d, dict_hash_function_seed, dict_can_resize, cursor, model,
                   scanlog>>

CallDictGetIterator ==
    /\ Running /\ ~iter.live
    /\ iter' = dictGetIterator
    /\ itlog' = NoItLog
    /\ fplog' = NoFpLog
    /\ UNCHANGED nonDictVars
    /\ UNCHANGED <<d, dict_hash_function_seed, dict_can_resize, cursor, model,
                   scanlog>>

\* the same calls of the second caller, whose iterator is a safe one
SecondGetSafeIterator ==
    /\ Running /\ ~iter2.live
    /\ iter2' = dictGetSafeIterator
    /\ UNCHANGED <<dictVars, intsetVars, hashVars>>

\* dictNext until it has returned NULL
SecondNext ==
    /\ Running /\ iter2.live
    /\ ~(IterStarted(iter2) /\ iter2.entry = NULL)
    /\ d' = dictNext(d, iter2).D
    /\ iter2' = dictNext(d, iter2).it
    /\ UNCHANGED <<intsetVars, hashVars>>
    /\ UNCHANGED <<dict_hash_function_seed, dict_can_resize, iter, cursor,
                   model, itlog, scanlog, fplog>>

SecondReleaseIterator ==
    /\ Running /\ iter2.live
    /\ d' = dictReleaseIterator(d, iter2)
    /\ iter2' = NoIter
    /\ UNCHANGED <<intsetVars, hashVars>>
    /\ UNCHANGED <<dict_hash_function_seed, dict_can_resize, iter, cursor,
                   model, itlog, scanlog, fplog>>

\* what the call of dictNext that returned r leaves behind
NextEffects(r) ==
    /\ d' = r.D
    /\ iter' = r.it
    /\ itlog' = IF iter.safe = 0 THEN [itlog EXCEPT !.done = r.ret = NULL]
                ELSE [itlog EXCEPT
                        !.started = TRUE,
                        !.snap = IF itlog.started THEN @ ELSE Chained(d),
                        !.done = r.ret = NULL,
                        !.yielded = IF r.ret = NULL \/ ~itlog.clean THEN @
                                    ELSE Append(@, r.ret)]

CallDictNext ==
    /\ Running /\ iter.live /\ ~itlog.done
    /\ NextEffects(dictNext(d, iter))
    /\ UNCHANGED nonDictVars
    /\ UNCHANGED <<dict_hash_function_seed, dict_can_resize, cursor, model,
                   scanlog, fplog>>

CallDictReleaseIterator ==
    /\ Running /\ iter.live
    /\ d' = dictReleaseIterator(d, iter)
    /\ iter' = NoIter
    /\ itlog' = NoItLog
    /\ fplog' = IF iter.safe = 1 THEN NoFpLog
                ELSE [fplog EXCEPT !.released = TRUE,
                                   !.started = IterStarted(iter)]
    /\ UNCHANGED nonDictVars
    /\ UNCHANGED <<dict_hash_function_seed, dict_can_resize, cursor, model,
                   scanlog>>

\* ks: the keys of the entries the callback received
EmittedKeys(D, emit) == {D.heap[emit[j]].key : j \in 1..Len(emit)}

\* what the call of dictScan that returned r leaves behind
ScanEffects(r, log) ==
    /\ cursor' = r.v
    /\ scanlog' = [log EXCEPT
           !.missing = @ \ EmittedKeys(d, r.emit),
           !.spurious = @ \/ ~(EmittedKeys(d, r.emit) \subseteq DOMAIN model),
           !.active = r.v /= 0,
           !.done = r.v = 0]

CallDictScan ==
    /\ Running
    /\ scanlog.active \/ cursor = 0
    /\ ScanEffects(dictScan(d, cursor),
                   IF scanlog.active THEN scanlog
                   ELSE [NoScanLog EXCEPT !.active = TRUE,
                                          !.missing = DOMAIN model,
                                          !.stable = DOMAIN model])
    /\ UNCHANGED nonDictVars
    /\ UNCHANGED <<d, dict_hash_function_seed, dict_can_resize, iter, model,
                   itlog, fplog>>

IterNext ==
    \/ CallDictGetSafeIterator
    \/ CallDictNext
    \/ CallDictReleaseIterator

ScanNext == CallDictScan

DictNext ==
    \/ \E key \in Keys, val \in Vals : CallDictAdd(key, val)
    \/ \E key \in Keys, val \in Vals : CallDictReplace(key, val)
    \/ \E key \in Keys : CallDictAddOrFind(key)
    \/ \E key \in Keys : CallDictDelete(key)
    \/ \E key \in Keys : CallDictUnlink(key)
    \/ \E key \in Keys : CallDictFind(key)
    \/ \E size \in ExpandSizes : CallDictExpand(size)
    \/ CallDictResize
    \/ \E n \in 1..MaxRehashN : CallDictRehash(n)
    \/ \E slices \in 1..MaxSlices : CallDictRehashMilliseconds(slices)

Next == DictNext

Spec == Init /\ [][Next]_vars

\* the calls made while an iterator is in use
IterEnv ==
    \/ \E key \in Keys : CallDictAdd(key, 1)
    \/ \E key \in Keys : CallDictReplace(key, 1)
    \/ \E key \in Keys : CallDictDelete(key)
    \/ \E key \in Keys : CallDictFind(key)
    \/ \E size \in IterExpandSizes : CallDictExpand(size)
    \/ CallDictResize
    \/ \E slices \in 1..MaxSlices : CallDictRehashMilliseconds(slices)

IterSpecNext == IterEnv \/ IterNext

SpecIter == Init /\ [][IterSpecNext]_vars

\* the calls made between two calls of dictScan
ScanEnv ==
    \/ \E key \in Keys : CallDictAdd(key, 1)
    \/ \E key \in Keys : CallDictDelete(key)
    \/ \E size \in ExpandSizes : CallDictExpand(size)
    \/ CallDictResize
    \/ \E n \in 1..MaxRehashN : CallDictRehash(n)

ScanSpecNext == ScanEnv \/ ScanNext

SpecScan == Init /\ [][ScanSpecNext]_vars

\* the calls made while an unsafe iterator exists, and those of the iterator
UnsafeKeys == {key \in Keys : 2 * key <= NumKeys}

UnsafeEnv ==
    \/ \E key \in UnsafeKeys : CallDictAdd(key, 1)
    \/ \E key \in UnsafeKeys : CallDictReplace(key, 1)
    \/ \E key \in UnsafeKeys : CallDictDelete(key)
    \/ \E key \in UnsafeKeys : CallDictFind(key)
    \/ \E size \in IterExpandSizes : CallDictExpand(size)

UnsafeIterNext ==
    \/ CallDictGetIterator
    \/ CallDictNext
    \/ CallDictReleaseIterator

UnsafeSpecNext == UnsafeEnv \/ UnsafeIterNext

SpecUnsafe == Init /\ [][UnsafeSpecNext]_vars

(* --------------------------- intset: the calls -------------------------- *)
\* the values the caller passes: those at the limits of the encodings and
\* the small ones
IntsetValues ==
    {LLOfInt(n) : n \in {INT32_MIN, INT16_MIN - 1, INT16_MIN, INT16_MAX,
                         INT16_MAX + 1, INT32_MAX} \cup (0..NumSmall)}
    \cup {LLAdd(LLOfInt(INT32_MIN), LLOfInt(0 - 1)),
          LLAdd(LLOfInt(INT32_MAX), LLOfInt(1))}

IntsetMaxLen == Cardinality(IntsetValues) + 1

\* the narrowest encoding whose signed range contains v: v is what comes
\* back when its low limbs are converted to int64_t
Fits(v, enc) == SignExtend(SubSeq(v, 1, EncLimbs(enc))) = v
Required(v) ==
    IF Fits(v, INTSET_ENC_INT16) THEN INTSET_ENC_INT16
    ELSE IF Fits(v, INTSET_ENC_INT32) THEN INTSET_ENC_INT32
    ELSE INTSET_ENC_INT64

MaxEnc(a, b) == IF a >= b THEN a ELSE b

\* what intsetAdd(iset, value), which returned r, leaves behind
IntsetAdded(r, value) ==
    /\ iset' = r.is
    /\ iset_model' = iset_model \cup {value}
    /\ iset_log' = [op |-> "add", value |-> value,
                    valenc |-> _intsetValueEncoding(value), ret |-> r.success,
                    before |-> iset, was |-> value \in iset_model,
                    maxenc |-> MaxEnc(iset_log.maxenc, Required(value)),
                    succ |-> IF iset_log.onlyAdds
                             THEN iset_log.succ + r.success ELSE 0,
                    onlyAdds |-> iset_log.onlyAdds]

CallIntsetAdd(value) ==
    /\ iset.length < IntsetMaxLen
    /\ IntsetAdded(intsetAdd(iset, value), value)
    /\ UNCHANGED <<dictVars, hashVars, iterVars>>

\* what intsetRemove(iset, value), which returned r, leaves behind
IntsetRemoved(r, value) ==
    /\ iset' = r.is
    /\ iset_model' = iset_model \ {value}
    /\ iset_log' = [iset_log EXCEPT
                      !.op = "remove", !.value = value,
                      !.valenc = _intsetValueEncoding(value), !.ret = r.success,
                      !.before = iset, !.was = value \in iset_model,
                      !.succ = 0, !.onlyAdds = FALSE]

CallIntsetRemove(value) ==
    /\ IntsetRemoved(intsetRemove(iset, value), value)
    /\ UNCHANGED <<dictVars, hashVars, iterVars>>

CallIntsetFind(value) ==
    /\ iset_log' = [iset_log EXCEPT
                      !.op = "find", !.value = value,
                      !.valenc = _intsetValueEncoding(value),
                      !.ret = intsetFind(iset, value),
                      !.before = iset, !.was = value \in iset_model]
    /\ UNCHANGED <<iset, iset_model>>
    /\ UNCHANGED <<dictVars, hashVars, iterVars>>

\* what intsetGet, which returned r, leaves behind
IntsetGot(r) ==
    iset_log' = [iset_log EXCEPT
                   !.op = "get", !.value = r.value, !.ret = r.ret,
                   !.before = iset, !.was = r.value \in iset_model]

CallIntsetGet(pos) ==
    /\ IntsetGot(intsetGet(iset, pos, LLOfInt(0)))
    /\ UNCHANGED <<iset, iset_model>>
    /\ UNCHANGED <<dictVars, hashVars, iterVars>>

IntsetNext ==
    \/ \E value \in IntsetValues : CallIntsetAdd(value)
    \/ \E value \in IntsetValues : CallIntsetRemove(value)
    \/ \E value \in IntsetValues : CallIntsetFind(value)
    \/ \E pos \in 0..intsetLen(iset) : CallIntsetGet(pos)

SpecIntset == Init /\ [][IntsetNext]_vars

\* ---------------------------------------------------------------------
\* The hash object driven by its callers: HSET (hsetCommand, one pair),
\* and hashTypeSet, hashTypeDelete, hashTypeGetValue, hashTypeExists and
\* hashTypeLength called directly, as HINCRBY, HDEL, HGET, HEXISTS and
\* HLEN do.  o_model is the field -> value map the calls should have
\* built, o_log what the last call was given and what it returned.
\* ---------------------------------------------------------------------
HashFields == 1..(NumKeys + 1)
LongString == DecimalBase ^ hash_max_ziplist_value
HashVals == {NumVals, LongString}

\* want, wantstr: what o_model says the call returns; len, encoding: of the
\* object before the call; the field the call was given is not recorded
HashLog(op, ret, vstr, want, wantstr) ==
    [op |-> op, ret |-> ret, vstr |-> vstr,
     want |-> want, wantstr |-> wantstr, len |-> hashTypeLength(o),
     encoding |-> o.encoding, long |-> FALSE]

HashLogged(op, ret, vstr, want, wantstr) ==
    o_log' = HashLog(op, ret, vstr, want, wantstr)

\* long: a string the set was given is longer than hash_max_ziplist_value
IsLong(str) == sdslen(str) > hash_max_ziplist_value

HashWasSet(r, op, field, value) ==
    /\ o' = r.o
    /\ o_model' = ModelSet(o_model, field, value)
    /\ o_log' = [HashLog(op, r.update, NULL,
                          IF field \in DOMAIN o_model THEN 1 ELSE 0, NULL)
                  EXCEPT !.long = IsLong(field) \/ IsLong(value)]

CallHashTypeSet(field, value) ==
    /\ o.panic = "none"
    /\ HashWasSet(hashTypeSet(o, field, value), "set", field, value)
    /\ UNCHANGED <<dictVars, intsetVars, iterVars>>

HashWasIncremented(r, field, incr) ==
    /\ o' = r.o
    /\ o_model' = IF r.stored THEN ModelSet(o_model, field, r.value)
                  ELSE o_model
    /\ o_log' = [op |-> "hincrby", ret |-> IF r.stored THEN 1 ELSE 0,
                 vstr |-> r.value, want |-> r.oldvalue, wantstr |-> incr,
                 len |-> hashTypeLength(o), encoding |-> o.encoding,
                 long |-> r.reply = "increment or decrement would overflow"]

hincrbyCommand(field, incr) ==
    /\ o.panic = "none"
    /\ HashWasIncremented(hincrby(o, field, incr), field, incr)
    /\ UNCHANGED <<dictVars, intsetVars, iterVars>>

hsetCommand(field, value) ==
    /\ o.panic = "none"
    /\ HashWasSet(hashTypeSet(hashTypeTryConversion(o, <<field, value>>), field, value),
                  "hset", field, value)
    /\ UNCHANGED <<dictVars, intsetVars, iterVars>>

HashWasDeleted(r, field) ==
    /\ o' = r.o
    /\ o_model' = ModelDel(o_model, field)
    /\ HashLogged("delete", r.deleted, NULL,
                  IF field \in DOMAIN o_model THEN 1 ELSE 0, NULL)

CallHashTypeDelete(field) ==
    /\ o.panic = "none"
    /\ HashWasDeleted(hashTypeDelete(o, field), field)
    /\ UNCHANGED <<dictVars, intsetVars, iterVars>>

HashWasGot(r, field) ==
    /\ o' = r.o
    /\ HashLogged("get", r.ret, IF r.ret = C_OK THEN r.vstr ELSE NULL,
                  IF field \in DOMAIN o_model THEN C_OK ELSE C_ERR,
                  IF field \in DOMAIN o_model THEN o_model[field] ELSE NULL)
    /\ UNCHANGED o_model

CallHashTypeGetValue(field) ==
    /\ o.panic = "none"
    /\ HashWasGot(hashTypeGetValue(o, field), field)
    /\ UNCHANGED <<dictVars, intsetVars, iterVars>>

HashDidExist(r, field) ==
    /\ o' = r.o
    /\ HashLogged("exists", r.ret, NULL,
                  IF field \in DOMAIN o_model THEN 1 ELSE 0, NULL)
    /\ UNCHANGED o_model

CallHashTypeExists(field) ==
    /\ o.panic = "none"
    /\ HashDidExist(hashTypeExists(o, field), field)
    /\ UNCHANGED <<dictVars, intsetVars, iterVars>>

CallHashTypeLength ==
    /\ o.panic = "none"
    /\ HashLogged("len", hashTypeLength(o), NULL, Cardinality(DOMAIN o_model), NULL)
    /\ UNCHANGED <<o, o_model, dictVars, intsetVars, iterVars>>

HashReplied(r, flags) ==
    /\ o' = r.o
    /\ HashLogged("hgetall", Len(r.reply), NULL,
                  Cardinality(DOMAIN o_model) * Cardinality(flags), NULL)
    /\ UNCHANGED o_model

\* HKEYS, HVALS and HGETALL
genericHgetallCommand(flags) ==
    /\ o.panic = "none"
    /\ HashReplied(genericHgetall(o, flags), flags)
    /\ UNCHANGED <<dictVars, intsetVars, iterVars>>

HashNext ==
    \/ \E field \in HashFields, value \in HashVals : CallHashTypeSet(field, value)
    \/ \E field \in HashFields, value \in HashVals : hsetCommand(field, value)
    \/ \E field \in HashFields : CallHashTypeDelete(field)
    \/ \E field \in HashFields : CallHashTypeGetValue(field)
    \/ \E field \in HashFields : CallHashTypeExists(field)
    \/ CallHashTypeLength

SpecHash == Init /\ [][HashNext]_vars

\* ---------------------------------------------------------------------
\* The dict with resizing switched off and on.  No explicit dictExpand or
\* dictResize is called, so a table grows by _dictExpandIfNeeded only; with
\* NumKeys + 1 keys a table of DICT_HT_INITIAL_SIZE buckets overflows.
\* ---------------------------------------------------------------------
dictEnableResize ==
    /\ Running
    /\ dict_can_resize' = 1
    /\ UNCHANGED <<d, dict_hash_function_seed, iter, cursor, model, itlog,
                   scanlog, fplog, nonDictVars>>

dictDisableResize ==
    /\ Running
    /\ dict_can_resize' = 0
    /\ UNCHANGED <<d, dict_hash_function_seed, iter, cursor, model, itlog,
                   scanlog, fplog, nonDictVars>>

GrowKeys == 1..(NumKeys + 1)
\* growth does not depend on the values stored
GrowVals == {NumVals}

\* the calls that go through dictAddRaw
GrowAdds ==
    \/ \E key \in GrowKeys, val \in GrowVals : CallDictAdd(key, val)
    \/ \E key \in GrowKeys, val \in GrowVals : CallDictReplace(key, val)
    \/ \E key \in GrowKeys : CallDictAddOrFind(key)

GrowNext ==
    \/ GrowAdds
    \/ \E key \in GrowKeys : CallDictDelete(key)
    \/ \E key \in GrowKeys : CallDictFind(key)
    \/ \E n \in 1..MaxRehashN : CallDictRehash(n)
    \/ dictEnableResize
    \/ dictDisableResize

SpecGrow == Init /\ [][GrowNext]_vars

\* hashTypeTryConversion and hashTypeConvert called on their own, as the
\* commands and the loader of the server may
CallHashTypeTryConversion(argv) ==
    /\ o.panic = "none"
    /\ o' = hashTypeTryConversion(o, argv)
    /\ HashLogged("try_conversion", NULL, NULL, NULL, NULL)
    /\ UNCHANGED <<o_model, dictVars, intsetVars, iterVars>>

CallHashTypeConvert(enc) ==
    /\ o.panic = "none"
    /\ o' = hashTypeConvert(o, enc)
    /\ HashLogged("convert", NULL, NULL, NULL, NULL)
    /\ UNCHANGED <<o_model, dictVars, intsetVars, iterVars>>

\* the fields of a hash that converts by count but never grows its table
ConvertFields == 1..(hash_max_ziplist_entries + 1)

HashConvertNext ==
    \/ \E field \in ConvertFields, value \in HashVals : CallHashTypeSet(field, value)
    \/ \E field \in ConvertFields, value \in HashVals : hsetCommand(field, value)
    \/ \E field \in ConvertFields : CallHashTypeDelete(field)
    \/ \E field \in ConvertFields : CallHashTypeGetValue(field)
    \/ \E flags \in (SUBSET {OBJ_HASH_KEY, OBJ_HASH_VALUE}) \ {{}} :
           genericHgetallCommand(flags)
    \/ \E field \in ConvertFields, value \in HashVals :
           CallHashTypeTryConversion(<<field, value>>)
    \/ \E enc \in {OBJ_ENCODING_ZIPLIST, OBJ_ENCODING_HT} : CallHashTypeConvert(enc)

SpecHashConvert == Init /\ [][HashConvertNext]_vars

\* a hash whose table grows and shrinks while HGETALL, HKEYS and HVALS
\* iterate it; one value, as the iteration does not depend on the values
IterFields == 1..(DICT_HT_INITIAL_SIZE + 1)
IterVals == {NumVals}

HashIterNext ==
    \/ \E field \in IterFields, value \in IterVals : CallHashTypeSet(field, value)
    \/ \E field \in IterFields : CallHashTypeDelete(field)
    \/ \E field \in IterFields : CallHashTypeGetValue(field)
    \/ \E flags \in (SUBSET {OBJ_HASH_KEY, OBJ_HASH_VALUE}) \ {{}} :
           genericHgetallCommand(flags)

SpecHashIter == Init /\ [][HashIterNext]_vars

\* HINCRBY on a few fields, by the largest and the smallest increment and
\* by one either way, as long as the values stay near the ends and zero
IncrFields == 1..(hash_max_ziplist_entries + 1)
Increments == {LLONG_MIN, 0 - 1, 1, LLONG_MAX}
NearEnds == {LLONG_MIN, LLONG_MIN + 1, 0 - 1, 0, 1, LLONG_MAX - 1, LLONG_MAX}

HashIncrNext ==
    \/ \E field \in IncrFields, incr \in Increments :
          /\ hincrbyCommand(field, incr)
          /\ \A f \in DOMAIN o_model' : o_model'[f] \in NearEnds
    \/ \E field \in IncrFields : CallHashTypeDelete(field)
    \/ \E field \in IncrFields : CallHashTypeGetValue(field)

SpecHashIncr == Init /\ [][HashIncrNext]_vars

(* ------------------------------ properties ---------------------------- *)
\* the places <<table, bucket, position in the chain>> where an entry hangs
Places(D) ==
    {<<t, i, j>> \in (0..1) \X (0..(D.ht[0].size + D.ht[1].size)) \X (1..(NumKeys + 1)) :
        /\ i < D.ht[t].size
        /\ j <= Len(ChainEntries(D.heap, D.ht[t].table[i]))}
EntryAt(D, pl) == ChainEntries(D.heap, D.ht[pl[1]].table[pl[2]])[pl[3]]
KeyAt(D, pl) == D.heap[EntryAt(D, pl)].key

\* C1: dictFind(k) returns an entry iff k was added and not deleted since,
\* and the entry carries the last value set for k, rehashing or not
DictIsMap ==
    \A key \in Keys :
        LET r == dictFind(d, key)
        IN  IF key \in DOMAIN model
            THEN /\ r.he /= NULL
                 /\ r.D.heap[r.he].alloc
                 /\ r.D.heap[r.he].key = key
                 /\ r.D.heap[r.he].val = model[key]
            ELSE r.he = NULL

\* a rehash is in progress and stays so after the step of dictFind, one
\* present key hangs in ht[0] and another in ht[1], one holds a replaced value
FindInBothTables ==
    /\ dictIsRehashing(d)
    /\ \E k0, k1 \in DOMAIN model :
          /\ dictIsRehashing(dictFind(d, k0).D)
          /\ dictFind(d, k0).he \in TableEntries(dictFind(d, k0).D, 0)
          /\ dictFind(d, k1).he \in TableEntries(dictFind(d, k1).D, 1)
          /\ model[k0] = 2

\* C4: no key hangs twice in the two tables
NoDuplicateKeys ==
    \A p, q \in Places(d) : KeyAt(d, p) = KeyAt(d, q) => p = q

\* a rehash is in progress with entries in both tables and every key present
AllKeysWhileRehashing ==
    /\ dictIsRehashing(d)
    /\ d.ht[0].used > 0 /\ d.ht[1].used > 0
    /\ DOMAIN model = Keys

\* C5: the used counter of each table is the number of entries chained in it
UsedCountsChained ==
    \A t \in 0..1 :
        d.ht[t].used = Cardinality({pl \in Places(d) : pl[1] = t})

\* a migration has moved entries: ht[1] holds a chain of two and ht[0] is
\* not yet empty
MigratedChain ==
    /\ dictIsRehashing(d) /\ d.rehashidx > 0
    /\ d.ht[0].used > 0
    /\ \E pl \in Places(d) : pl[1] = 1 /\ pl[3] = 2

\* C6: every entry of bucket b of table t has hash(key) & sizemask = b
BucketDiscipline ==
    \A pl \in Places(d) :
        BitAnd(dictHashKey(KeyAt(d, pl)), d.ht[pl[1]].sizemask) = pl[2]

\* entries hang in ht[1] in a bucket that does not exist in ht[0]
EntryInUpperBucket ==
    /\ dictIsRehashing(d) /\ d.ht[0].used > 0
    /\ \E pl \in Places(d) : pl[1] = 1 /\ pl[2] >= d.ht[0].size

\* C7: while rehashing 0 <= rehashidx <= ht[0].size and the buckets below
\* rehashidx are empty; the assert of dictRehash never fails and its skip
\* loop never reads past the table
RehashPrefixEmpty ==
    /\ d.fault \notin {"assert", "out-of-bounds"}
    /\ dictIsRehashing(d) =>
          /\ 0 <= d.rehashidx /\ d.rehashidx <= d.ht[0].size
          /\ \A i \in 0..(d.rehashidx - 1) : d.ht[0].table[i] = NULL

\* a call of dictRehash has stopped on its budget of empty buckets: rehashidx
\* is past ten empty buckets while entries remain in ht[0] and others have
\* been moved to ht[1]
RehashSkippedEmpty ==
    /\ dictIsRehashing(d) /\ d.rehashidx >= 10
    /\ d.ht[0].used > 0 /\ d.ht[1].used > 0

\* C8: rehashidx = -1 iff ht[1] has no buckets; a call of dictRehash either
\* leaves entries in ht[0] and the two tables in place, or empties ht[0], and
\* then the old ht[1] is the new ht[0], ht[1] is reset and rehashidx is -1
RehashIdxIffSecondTable ==
    /\ (d.rehashidx = 0 - 1) <=> (d.ht[1].size = 0)
    /\ d.ht[1].size = 0 => d.ht[1] = _dictReset
    /\ \A n \in 1..MaxRehashN :
          LET r == dictRehash(d, n)
          IN  dictIsRehashing(d) =>
                 IF r.ret = 0
                 THEN /\ r.D.rehashidx = 0 - 1
                      /\ r.D.ht[1] = _dictReset
                      /\ r.D.ht[0].size = d.ht[1].size
                      /\ r.D.ht[0].used = d.ht[0].used + d.ht[1].used
                      /\ TableEntries(r.D, 0) = Chained(d)
                 ELSE /\ dictIsRehashing(r.D)
                      /\ r.D.ht[0].used > 0
                      /\ r.D.ht[0].size = d.ht[0].size
                      /\ r.D.ht[1].size = d.ht[1].size

\* a rehash has completed: ht[0] has grown beyond the initial size, holds
\* entries, and no rehash is in progress
RehashCompleted ==
    /\ ~dictIsRehashing(d)
    /\ d.ht[0].size > DICT_HT_INITIAL_SIZE
    /\ d.ht[0].used > 0

\* the entries the iteration in progress has returned
YieldedSet == {itlog.yielded[j] : j \in 1..Len(itlog.yielded)}

\* C9: a safe iterator run to exhaustion, with no call in between other than
\* the delete of the entry just returned, returns every entry the dict held at
\* its first dictNext exactly once and never follows a freed entry
SafeIteratorExactlyOnce ==
    itlog.started /\ itlog.clean =>
        /\ d.fault = "none"
        /\ Cardinality(YieldedSet) = Len(itlog.yielded)
        /\ YieldedSet \subseteq itlog.snap
        /\ itlog.done => YieldedSet = itlog.snap

\* an iteration over NumKeys entries spread over the two tables of a rehash is
\* exhausted, and the caller has deleted some of the entries it was given
SafeIterationWithDeletes ==
    /\ itlog.done /\ itlog.clean
    /\ Cardinality(itlog.snap) = NumKeys
    /\ dictIsRehashing(d) /\ d.ht[0].used > 0 /\ d.ht[1].used > 0
    /\ Cardinality(DOMAIN model) = 2

\* C10: while a safe iterator is counted in d->iterators no call runs a rehash
\* step and no entry moves from one table to the other
ShapeFrozenUnderSafeIterator ==
    [][d.iterators > 0 =>
          /\ dictIsRehashing(d) => d'.rehashidx = d.rehashidx
          /\ TableEntries(d, 0) \cap TableEntries(d', 1) = {}
          /\ TableEntries(d, 1) \cap TableEntries(d', 0) = {}]_vars

\* C2: a scan that has returned cursor 0 has emitted every key that was
\* present from its first call to its last, whatever adds, deletes, expands,
\* resizes and rehash steps ran between its calls
ScanMissesNoStableKey == scanlog.done => scanlog.missing = {}

\* a scan has ended during a rehash, keys were added or deleted between its
\* calls, and two keys were present throughout
ScanEndedUnderMutation ==
    /\ scanlog.done /\ scanlog.keysChanged
    /\ Cardinality(scanlog.stable) >= 2
    /\ DOMAIN model /= scanlog.stable
    /\ dictIsRehashing(d) /\ d.ht[0].used > 0 /\ d.ht[1].used > 0

\* C3: with the key set unchanged during a scan, the keys emitted when cursor 0
\* comes back are exactly the keys of the dict; and the scan ends after
\* finitely many calls, because every call that does not return 0 moves the
\* cursor strictly up in reversed-bit order
ScanOfFixedKeysExact ==
    /\ [](scanlog.done /\ ~scanlog.keysChanged =>
             /\ scanlog.missing = {}
             /\ ~scanlog.spurious
             /\ scanlog.stable = DOMAIN model)
    /\ [][cursor' /= cursor => cursor' = 0 \/ rev(cursor') > rev(cursor)]_vars

\* a scan of all NumKeys keys, none added or deleted meanwhile, has ended
\* while a rehash with entries in both tables is in progress
ScanOfFixedKeysEnded ==
    /\ scanlog.done /\ ~scanlog.keysChanged
    /\ scanlog.stable = Keys
    /\ dictIsRehashing(d) /\ d.ht[0].used > 0 /\ d.ht[1].used > 0
    /\ d.ht[1].size > 2 * DICT_HT_INITIAL_SIZE

UnsafeReleaseFailsAfterInsert ==
    fplog.released /\ fplog.insC /\ ~fplog.otherC => d.fault = "fingerprint"

(* ------------------------- properties of the intset -------------------- *)
\* the stored values in the order of their positions
Elements(is) == [i \in 1..is.length |-> _intsetGet(is, i - 1)]
ElementSet(is) == {_intsetGet(is, i - 1) : i \in 1..is.length}

\* C13: after any adds and removes, widening adds included, the elements are
\* strictly ascending, get(i) < get(i+1), and every limb of the contents is
\* a written one
IntsetSorted ==
    /\ Len(iset.contents) = iset.length * EncLimbs(iset.encoding)
    /\ \A i \in 1..Len(iset.contents) : iset.contents[i] /= Uninit
    /\ \A i \in 1..(iset.length - 1) :
          LLLess(_intsetGet(iset, i - 1), _intsetGet(iset, i))

\* a set of all values but one reached by an add that widened INT32 to
\* INT64, after some remove
IntsetFullAfterWidening ==
    /\ iset.length = Cardinality(IntsetValues) - 1
    /\ iset_log.op = "add" /\ ~iset_log.onlyAdds
    /\ iset_log.before.encoding = INTSET_ENC_INT32
    /\ iset.encoding = INTSET_ENC_INT64

\* C14: intsetFind(v) is 1 iff v was added and not removed since; it is 1
\* right after add(v), 0 right after remove(v); removing an absent value
\* returns 0 and changes nothing
IntsetIsSet ==
    /\ \A v \in IntsetValues : intsetFind(iset, v) = 1 <=> v \in iset_model
    /\ ElementSet(iset) = iset_model
    /\ iset_log.op = "add" => intsetFind(iset, iset_log.value) = 1
    /\ iset_log.op = "remove" => intsetFind(iset, iset_log.value) = 0
    /\ iset_log.op = "remove" /\ ~iset_log.was
          => iset_log.ret = 0 /\ iset = iset_log.before
    /\ iset_log.op = "remove" /\ iset_log.was => iset_log.ret = 1
    /\ iset_log.op = "find" => (iset_log.ret = 1 <=> iset_log.was)

\* an absent value wider than the encoding was removed from a set of several
RemovedAbsentWideValue ==
    /\ iset_log.op = "remove" /\ ~iset_log.was
    /\ iset_log.valenc > iset_log.before.encoding
    /\ iset_log.before.length >= 2

\* C15: intsetAdd returns success iff the value was absent; adding a present
\* value changes nothing; after adds only the length is the number of
\* successes
AddReportsNew ==
    iset_log.op = "add" =>
        /\ iset_log.ret = 1 <=> ~iset_log.was
        /\ iset_log.was => iset = iset_log.before
        /\ ~iset_log.was => iset.length = iset_log.before.length + 1
        /\ iset_log.onlyAdds => iset.length = iset_log.succ

\* a present value was added again to a set of several values
AddedPresentValue ==
    /\ iset_log.op = "add" /\ iset_log.was /\ iset_log.ret = 0
    /\ iset_log.onlyAdds /\ iset.length >= 3

\* C16: no call lowers the encoding
EncodingNeverDecreases == [][iset'.encoding >= iset.encoding]_vars

\* the only value that needed the encoding was removed, others are left
RemovedOnlyWideValue ==
    /\ iset_log.op = "remove" /\ iset_log.ret = 1
    /\ iset_log.valenc = iset.encoding
    /\ iset.length >= 1
    /\ \A v \in ElementSet(iset) : Required(v) < iset.encoding

\* the narrowest encoding sufficient for the values of S
MinimumEncoding(S) ==
    IF \E v \in S : Required(v) = INTSET_ENC_INT64 THEN INTSET_ENC_INT64
    ELSE IF \E v \in S : Required(v) = INTSET_ENC_INT32 THEN INTSET_ENC_INT32
    ELSE INTSET_ENC_INT16

\* C17, as stated: the encoding is the minimum width sufficient for every
\* stored value
EncodingIsMinimal == iset.encoding = MinimumEncoding(ElementSet(iset))

\* C17, amended: the encoding is sufficient for every stored value and is
\* the minimum width sufficient for every value added since the creation
EncodingFitsAndIsMinimalForAdded ==
    /\ \A v \in ElementSet(iset) : Required(v) <= iset.encoding
    /\ iset.encoding = iset_log.maxenc

\* values are stored in an encoding wider than any of them needs
EncodingWiderThanStored ==
    /\ iset.length >= 2
    /\ MinimumEncoding(ElementSet(iset)) < iset.encoding

\* C18: the required encoding of v is the narrowest of INT16, INT32, INT64
\* whose signed range contains v; -32768 and 32767 are INT16, -32769, 32768,
\* -2147483648 and 2147483647 are INT32, -2147483649 and 2147483648 are INT64
ValueEncodingIsRequired ==
    /\ iset_log.op \in {"add", "remove", "find"}
          => iset_log.valenc = Required(iset_log.value)
    /\ \A v \in IntsetValues :
          _intsetValueEncoding(v) =
              IF /\ ~LLLess(v, LLOfInt(INT16_MIN))
                 /\ ~LLLess(LLOfInt(INT16_MAX), v)
              THEN INTSET_ENC_INT16
              ELSE IF /\ ~LLLess(v, LLOfInt(INT32_MIN))
                      /\ ~LLLess(LLOfInt(INT32_MAX), v)
              THEN INTSET_ENC_INT32
              ELSE INTSET_ENC_INT64
    /\ _intsetValueEncoding(LLOfInt(INT16_MIN)) = INTSET_ENC_INT16
    /\ _intsetValueEncoding(LLOfInt(INT16_MAX)) = INTSET_ENC_INT16
    /\ _intsetValueEncoding(LLOfInt(INT16_MIN - 1)) = INTSET_ENC_INT32
    /\ _intsetValueEncoding(LLOfInt(INT16_MAX + 1)) = INTSET_ENC_INT32
    /\ _intsetValueEncoding(LLOfInt(INT32_MIN)) = INTSET_ENC_INT32
    /\ _intsetValueEncoding(LLOfInt(INT32_MAX)) = INTSET_ENC_INT32
    /\ _intsetValueEncoding(LLAdd(LLOfInt(INT32_MIN), LLOfInt(0 - 1)))
          = INTSET_ENC_INT64
    /\ _intsetValueEncoding(LLAdd(LLOfInt(INT32_MAX), LLOfInt(1)))
          = INTSET_ENC_INT64

\* -2147483649 was given to a call, which computed INT64 for it
EncodedBelowInt32Min ==
    /\ iset_log.op = "find"
    /\ iset_log.value = LLAdd(LLOfInt(INT32_MIN), LLOfInt(0 - 1))
    /\ iset_log.valenc = INTSET_ENC_INT64

\* C19: an add of a value whose required encoding exceeds the encoding
\* returns success, sets the encoding to the required one, keeps the stored
\* elements and their order, adds one to the length, and puts the value at
\* position 0 when it is negative and at the last position when positive
UpgradeAddKeepsElements ==
    iset_log.op = "add" /\ Required(iset_log.value) > iset_log.before.encoding
    =>  /\ iset_log.ret = 1
        /\ iset.encoding = Required(iset_log.value)
        /\ iset.length = iset_log.before.length + 1
        /\ Elements(iset) =
              IF LLLess(iset_log.value, LLOfInt(0))
              THEN <<iset_log.value>> \o Elements(iset_log.before)
              ELSE Elements(iset_log.before) \o <<iset_log.value>>

\* a negative value was put before several elements, a negative one among
\* them, which went from INT16 to INT64
UpgradeAddPrepended ==
    /\ iset_log.op = "add" /\ iset_log.ret = 1
    /\ iset_log.before.encoding = INTSET_ENC_INT16
    /\ iset.encoding = INTSET_ENC_INT64
    /\ iset_log.before.length >= 2
    /\ LLLess(iset_log.value, LLOfInt(0))
    /\ LLLess(_intsetGet(iset_log.before, 0), LLOfInt(0))

\* ---------------------------------------------------------------------
\* The hash object as a map
\* ---------------------------------------------------------------------
HashLookupAgrees(field) ==
    /\ hashTypeGetValue(o, field).ret = (IF field \in DOMAIN o_model THEN C_OK ELSE C_ERR)
    /\ field \in DOMAIN o_model => hashTypeGetValue(o, field).vstr = o_model[field]
    /\ hashTypeExists(o, field).ret = (IF field \in DOMAIN o_model THEN 1 ELSE 0)

HashReturnAgrees ==
    /\ o_log.ret = o_log.want
    /\ o_log.vstr = o_log.wantstr
    /\ o_log.op \in {"set", "hset"} /\ o_log.want = 1 => hashTypeLength(o) = o_log.len

\* C20: whatever the representation, and through every conversion, the
\* hash object is the field -> value map its sets and deletes built: get
\* returns the last value set for a field that was not deleted since and
\* nothing otherwise, exists and len agree with that map, set returns 1
\* exactly when the field existed before, and setting an existing field
\* leaves len unchanged.
HashObjectIsMap ==
    /\ o.panic = "none"
    /\ \A field \in HashFields : HashLookupAgrees(field)
    /\ hashTypeLength(o) = Cardinality(DOMAIN o_model)
    /\ HashReturnAgrees

\* an HSET with a long value replaced the value of a field of a packed
\* hash, converting it on the way
HashReplacedAcrossConversion ==
    /\ o_log.op = "hset" /\ o_log.want = 1 /\ o_log.ret = 1
    /\ o_log.encoding = OBJ_ENCODING_ZIPLIST
    /\ o.encoding = OBJ_ENCODING_HT
    /\ \E field \in DOMAIN o_model : o_model[field] = LongString
    /\ Cardinality(DOMAIN o_model) > 1

\* C21: a hash object that is a hash table stays one: no set, delete, get,
\* try_conversion, iteration or requested conversion gives it back a ziplist,
\* and a conversion requested of a hash table ends in the panic "Not
\* implemented".
TableStaysTable ==
    [][o.encoding = OBJ_ENCODING_HT =>
          /\ o'.encoding = OBJ_ENCODING_HT
          /\ o_log'.op = "convert" => o'.panic = "Not implemented"]_vars

\* a hash table without fields was asked to convert and refused
EmptyTableRefusedConversion ==
    /\ o_log.op = "convert" /\ o.panic = "Not implemented"
    /\ o.encoding = OBJ_ENCODING_HT
    /\ o_log.encoding = OBJ_ENCODING_HT /\ o_log.len = 0

\* C22: after a set that leaves more than hash_max_ziplist_entries fields,
\* or that was given a field or a value longer than hash_max_ziplist_value,
\* the hash object is a hash table; a set that does neither leaves a packed
\* hash packed.
SetConvertsWhenDue ==
    o_log.op \in {"set", "hset"} =>
        IF hashTypeLength(o) > hash_max_ziplist_entries \/ o_log.long
        THEN o.encoding = OBJ_ENCODING_HT
        ELSE o.encoding = o_log.encoding

\* the <<field, value>> pairs a hash object holds, read off its payload
HashPairs(O) ==
    IF O.encoding = OBJ_ENCODING_ZIPLIST
    THEN {<<O.ptr[2 * i - 1], O.ptr[2 * i]>> : i \in 1..(Len(O.ptr) \div 2)}
    ELSE {<<O.ptr.heap[he].key, O.ptr.heap[he].val>> : he \in Chained(O.ptr)}

\* C23: the conversion of a packed hash into a hash table loses nothing:
\* right after it the hash holds the same fields with the same values and
\* has the same length, and no hash built by sets and deletes makes the
\* conversion find a field twice ("Ziplist corruption detected").
ConversionIsLossless ==
    /\ [](o.panic /= "Ziplist corruption detected")
    /\ [][/\ o_log'.op \in {"convert", "try_conversion"}
          /\ o.encoding = OBJ_ENCODING_ZIPLIST
          /\ o'.encoding = OBJ_ENCODING_HT
          => /\ HashPairs(o') = HashPairs(o)
             /\ hashTypeLength(o') = hashTypeLength(o)
             /\ hashTypeLength(o') = Cardinality(HashPairs(o'))
             /\ o'.panic = "none"]_vars

\* a packed hash holding as many fields as it may was converted
FullPackedHashConverted ==
    /\ o_log.op \in {"convert", "try_conversion"}
    /\ o_log.encoding = OBJ_ENCODING_ZIPLIST
    /\ o_log.len = hash_max_ziplist_entries
    /\ o.encoding = OBJ_ENCODING_HT /\ o.panic = "none"
    /\ hashTypeLength(o) = hash_max_ziplist_entries

(* ------------------- replace, add, expand and resize ------------------ *)
Freed(calls) == {j \in DOMAIN calls : calls[j].call = "dictFreeVal"}

ReplaceAgrees(r, key, val) ==
    /\ IF key \in DOMAIN model
       THEN /\ r.ret = 0
            /\ dictSize(r.D) = dictSize(d)
            /\ r.calls = <<[call |-> "dictSetVal", val |-> val],
                           [call |-> "dictFreeVal", val |-> model[key]]>>
       ELSE /\ r.ret = 1
            /\ dictSize(r.D) = dictSize(d) + 1
            /\ Freed(r.calls) = {}
    /\ dictFind(r.D, key).he /= NULL
    /\ dictFind(r.D, key).D.heap[dictFind(r.D, key).he].val = val
    /\ r.D.fault = "none"

\* C24: dictReplace returns 1 and adds one entry when the key was absent,
\* returns 0 and keeps the number of entries when it was present; either way
\* dictFind then gives the new value, and for a present key the new value
\* is set before the old one is released, which happens once.
ReplaceSetsThenFrees ==
    Running /\ HasFreeCell(d.heap) =>
        \A key \in Keys, val \in Vals : ReplaceAgrees(dictReplace(d, key, val), key, val)

\* while rehashing, a key held in ht[0] can be given the very value it has,
\* and another key is absent
ReplaceSameValueWhileRehashing ==
    /\ Running /\ HasFreeCell(d.heap) /\ dictIsRehashing(d)
    /\ DOMAIN model /= Keys
    /\ \E key \in DOMAIN model :
          /\ dictReplace(d, key, model[key]).ret = 0
          /\ dictIsRehashing(dictReplace(d, key, model[key]).D)
          /\ dictFind(d, key).he \in TableEntries(dictFind(d, key).D, 0)

\* the <<key, value>> pairs chained in a dict, and those of a model
DictPairs(D) == {<<D.heap[he].key, D.heap[he].val>> : he \in Chained(D)}
ModelPairs(m) == {<<key, m[key]>> : key \in DOMAIN m}

AddAgrees(r, raw, key, val) ==
    /\ r.D.fault = "none"
    /\ IF key \in DOMAIN model
       THEN /\ r.ret = DICT_ERR
            /\ dictSize(r.D) = dictSize(d)
            /\ DictPairs(r.D) = ModelPairs(model)
            /\ raw.entry = NULL /\ raw.existing /= NULL
            /\ raw.D.heap[raw.existing].alloc
            /\ raw.D.heap[raw.existing].key = key
            /\ raw.D.heap[raw.existing].val = model[key]
       ELSE /\ r.ret = DICT_OK
            /\ dictSize(r.D) = dictSize(d) + 1
            /\ DictPairs(r.D) = ModelPairs(ModelSet(model, key, val))
            /\ raw.entry /= NULL /\ raw.existing = NULL

\* C25: dictAdd of a present key returns DICT_ERR and leaves every key with
\* its value and the number of entries as it was, dictAddRaw reporting the
\* existing entry; dictAdd of an absent key returns DICT_OK, never failing
\* because dictExpand refused.
AddKeepsExisting ==
    Running /\ HasFreeCell(d.heap) =>
        \A key \in Keys, val \in Vals :
            AddAgrees(dictAdd(d, key, val), dictAddRaw(d, key), key, val)

\* while rehashing, a present key whose entry is already in ht[1] and an
\* absent key can both be added
AddPresentAndAbsentWhileRehashing ==
    /\ Running /\ HasFreeCell(d.heap) /\ dictIsRehashing(d)
    /\ \E key \in DOMAIN model :
          /\ dictAdd(d, key, model[key]).ret = DICT_ERR
          /\ dictAddRaw(d, key).existing \in TableEntries(dictAddRaw(d, key).D, 1)
    /\ \E key \in Keys \ DOMAIN model : dictAdd(d, key, NumVals).ret = DICT_OK

\* a step that starts an expansion: ht[0] gets its first buckets, or a rehash
\* towards a new ht[1] begins
GrowthStarted ==
    \/ d.ht[0].size = 0 /\ d'.ht[0].size /= 0
    \/ /\ dictIsRehashing(d')
       /\ ~dictIsRehashing(d) \/ d'.ht[1].size /= d.ht[1].size

\* the rule in numbers: with size buckets and used entries growth is due
\* to used * 2 when used >= size, and with resizing off only from
\* (dict_force_resize_ratio + 1) * size entries on
GrowRuleAgrees(size, used) ==
    ExpandSizeIfNeeded(size, used) =
        IF size = 0 THEN DICT_HT_INITIAL_SIZE
        ELSE IF used >= size /\ dict_can_resize = 1 THEN used * 2
        ELSE IF used >= (dict_force_resize_ratio + 1) * size THEN used * 2
        ELSE NULL

\* what _dictExpandIfNeeded does to the dict of the state
GrowAgrees(x) ==
    /\ x.ret = DICT_OK
    /\ IF dictIsRehashing(d) THEN x.D = d
       ELSE IF d.ht[0].size = 0
       THEN /\ x.D.ht[0].size = DICT_HT_INITIAL_SIZE
            /\ ~dictIsRehashing(x.D)
       ELSE IF d.ht[0].used >= d.ht[0].size /\ dict_can_resize = 1
       THEN /\ dictIsRehashing(x.D)
            /\ x.D.ht[0] = d.ht[0]
            /\ x.D.ht[1].size >= d.ht[0].used * 2
            /\ x.D.ht[1].size \div 2 < d.ht[0].used * 2
            /\ x.D.ht[1].used = 0
       ELSE x.D = d

GrowRule ==
    /\ \A size \in {0, DICT_HT_INITIAL_SIZE, 2 * DICT_HT_INITIAL_SIZE},
          used \in 0..MaxGrowUsed : GrowRuleAgrees(size, used)
    /\ Running => GrowAgrees(_dictExpandIfNeeded(d))

\* C26 as stated: growth is triggered only inside an add that creates a new
\* entry; then, if no rehash is in progress and ht[0].used >= ht[0].size,
\* an expansion to used * 2 is started, with resizing off only if
\* used / size > dict_force_resize_ratio; a never-sized dict is first
\* sized to DICT_HT_INITIAL_SIZE.
GrowsOnlyWithNewEntry ==
    /\ []GrowRule
    /\ [][GrowthStarted => DOMAIN model' /= DOMAIN model]_vars

\* C26, amended: growth is triggered only inside dictAddRaw, reached through
\* dictAdd, dictReplace and dictAddOrFind, and before the key is looked up,
\* so also by a call that finds the key and creates no entry; the rule
\* itself is as stated, the ratio being the integer quotient.
GrowsOnlyInAddRaw ==
    /\ []GrowRule
    /\ [][GrowthStarted => GrowAdds]_vars

\* with resizing off ht[0] holds more entries than buckets and is not
\* rehashing: an add went by without growth
OverfullTableResizeOff ==
    /\ dict_can_resize = 0 /\ ~dictIsRehashing(d)
    /\ d.ht[0].used > d.ht[0].size /\ d.ht[0].size > 0

(* ------- lookups and mutations beside an iterator of either kind -------- *)
\* two keys of different buckets of the smallest table
StepKeys == {1, DICT_HT_INITIAL_SIZE}

StepNext ==
    \/ \E key \in StepKeys : CallDictAdd(key, NumVals)
    \/ \E key \in StepKeys : CallDictDelete(key)
    \/ \E key \in StepKeys : CallDictUnlink(key)
    \/ \E key \in StepKeys : CallDictFind(key)
    \/ \E he \in EntryIds \cup {NULL} : CallDictGetRandomKey(he)
    \/ \E size \in IterExpandSizes : CallDictExpand(size)
    \/ CallDictGetSafeIterator
    \/ CallDictGetIterator
    \/ CallDictNext
    \/ CallDictReleaseIterator

SpecStep == Init /\ [][StepNext]_vars

(* ------------------------- two safe iterators --------------------------- *)
CountNext ==
    \/ \E key \in StepKeys : CallDictAdd(key, NumVals)
    \/ \E key \in StepKeys : CallDictDelete(key)
    \/ \E size \in IterExpandSizes : CallDictExpand(size)
    \/ \E n \in 1..MaxRehashN : CallDictRehash(n)
    \/ CallDictGetSafeIterator
    \/ CallDictNext
    \/ CallDictReleaseIterator
    \/ SecondGetSafeIterator
    \/ SecondNext
    \/ SecondReleaseIterator

SpecCount == Init /\ [][CountNext]_vars

(* ---------------- a rehash among calls that run its steps --------------- *)
FinishKeys == {1, NumKeys - 1, NumKeys}

FinishNext ==
    \/ \E key \in FinishKeys : CallDictAdd(key, NumVals)
    \/ \E key \in FinishKeys : CallDictDelete(key)
    \/ \E key \in FinishKeys : CallDictFind(key)
    \/ \E size \in ExpandSizes : CallDictExpand(size)
    \/ CallDictResize
    \/ \E n \in 1..MaxRehashN : CallDictRehash(n)

\* dictRehash(d, 1), the rehash step the lookups and mutations run
RunsRehashStep == CallDictRehash(1)

\* such calls keep coming
SpecFinish == Init /\ [][FinishNext]_vars /\ WF_vars(RunsRehashStep)

(* ------------------------- sampling a changing dict --------------------- *)
\* the counts dictGetSomeKeys is asked for, and the seeds of random()
SampleKeys == Keys
SomeCounts == 0..(Cardinality(SampleKeys) + 1)
RandomSeeds == {0, 1, DICT_HT_INITIAL_SIZE + 1}

SampleNext ==
    \/ \E key \in SampleKeys : CallDictAdd(key, NumVals)
    \/ \E key \in SampleKeys : CallDictDelete(key)
    \/ \E size \in ExpandSizes : CallDictExpand(size)
    \/ \E n \in 1..MaxRehashN : CallDictRehash(n)
    \/ \E count \in SomeCounts, r0, r1 \in RandomSeeds :
          CallDictGetSomeKeys(count, r0, r1)

SpecSample == Init /\ [][SampleNext]_vars

(* --------------- dictExpand with every size an unsigned long holds ------ *)
\* the requested sizes: small ones, and the ones around LONG_MAX
ExpandTargets ==
    ExpandSizes \cup {LONG_MAX - 1, LONG_MAX, LONG_MAX + 1, LONG_MAX + 2,
                      WordMod - 1}

ExpandNext ==
    \/ \E key \in Keys : CallDictAdd(key, NumVals)
    \/ \E key \in Keys : CallDictDelete(key)
    \/ \E size \in ExpandTargets : CallDictExpand(size)
    \/ CallDictResize
    \/ \E n \in 1..MaxRehashN : CallDictRehash(n)

SpecExpand == Init /\ [][ExpandNext]_vars

(* ------------- dictResize with resizing switched on and off ------------ *)
ResizeNext ==
    \/ \E key \in GrowKeys : CallDictAdd(key, NumVals)
    \/ \E key \in GrowKeys : CallDictDelete(key)
    \/ \E size \in ExpandSizes : CallDictExpand(size)
    \/ CallDictResize
    \/ \E n \in 1..MaxRehashN : CallDictRehash(n)
    \/ dictEnableResize
    \/ dictDisableResize

SpecResize == Init /\ [][ResizeNext]_vars

(* ------------------- dictExpand: the refused requests ------------------ *)
\* the sizes dictExpand is asked for
AskedSizes == 0..MaxExpand

\* dictExpand(d, size) returned DICT_ERR and left the dict as it was
ExpandRefused(size) ==
    /\ dictExpand(d, size).ret = DICT_ERR
    /\ dictExpand(d, size).D = d

\* dictExpand(d, size) returned DICT_OK with a new table of the rounded size
ExpandAccepted(size) ==
    /\ dictExpand(d, size).ret = DICT_OK
    /\ dictExpand(d, size).D /= d

\* C27 as stated: dictExpand returns an error and leaves the dict unchanged
\* when a rehash is in progress, when the requested size is <= ht[0].used,
\* or when the rounded size equals ht[0].size.
ExpandRefusedUpToUsed ==
    \A size \in AskedSizes :
        \/ dictIsRehashing(d)
        \/ size <= d.ht[0].used
        \/ _dictNextPower(size) = d.ht[0].size
        => ExpandRefused(size)

\* C27, amended: dictExpand returns an error and leaves the dict unchanged
\* when a rehash is in progress, when the requested size is < ht[0].used,
\* or when the rounded size equals ht[0].size; every other request,
\* the one for exactly ht[0].used entries included, is accepted.
ExpandRefusedBelowUsed ==
    \A size \in AskedSizes :
        IF \/ dictIsRehashing(d)
           \/ size < d.ht[0].used
           \/ _dictNextPower(size) = d.ht[0].size
        THEN ExpandRefused(size)
        ELSE ExpandAccepted(size)

\* a table that is not rehashing holds several entries: the request for one
\* bucket is refused only for being below the entries, the request for as
\* many buckets as entries is accepted, the current size is refused
ExpandAtUsedAccepted ==
    /\ ~dictIsRehashing(d) /\ d.ht[0].used > 1
    /\ _dictNextPower(1) /= d.ht[0].size
    /\ ExpandRefused(1)
    /\ ExpandAccepted(d.ht[0].used)
    /\ ExpandRefused(d.ht[0].size)

(* ------------------ the bucket counts dictExpand chooses ---------------- *)
PowersOfTwo == {2^k : k \in 0..WordBits}

IsPowerOfTwo(n) == n \in PowersOfTwo

\* the smallest power of two >= n, as a number
SmallestPowerAtLeast(n) ==
    CHOOSE p \in PowersOfTwo :
        /\ p >= n
        /\ \A q \in PowersOfTwo : q >= n => p <= q

Max3(a, b, c) ==
    IF a >= b /\ a >= c THEN a ELSE IF b >= c THEN b ELSE c

\* the sizes at which the answer of _dictNextPower changes
PowerEdges ==
    UNION {{p - 1, p, p + 1} : p \in PowersOfTwo} \cap 0..(WordMod - 1)

\* the table dictExpand(d, size) made, when it returned DICT_OK
ExpandedTable(size) ==
    IF d.ht[0].size = 0 THEN dictExpand(d, size).D.ht[0]
    ELSE dictExpand(d, size).D.ht[1]

\* every table has no buckets, or a power of two >= DICT_HT_INITIAL_SIZE of
\* them and the mask of that size
TableShape(t) ==
    \/ t.size = 0 /\ t.sizemask = 0
    \/ /\ IsPowerOfTwo(t.size) /\ t.size >= DICT_HT_INITIAL_SIZE
       /\ t.sizemask = t.size - 1
       /\ DOMAIN t.table = 0..(t.size - 1)

TablesShaped == TableShape(d.ht[0]) /\ TableShape(d.ht[1])

\* C28 as stated: dictExpand chooses as new bucket count the smallest power
\* of two >= max(target, DICT_HT_INITIAL_SIZE, used); so in every reachable
\* state each table has 0 buckets or a power of two >= 4 of them, and its
\* sizemask is the count minus one.
ExpandChoosesSmallestPower ==
    /\ \A size \in ExpandTargets \cup PowerEdges :
         dictExpand(d, size).ret = DICT_OK =>
            ExpandedTable(size).size =
               SmallestPowerAtLeast(Max3(size, DICT_HT_INITIAL_SIZE,
                                         d.ht[0].used))
    /\ TablesShaped

\* what holds of dictExpand: for a target below LONG_MAX an accepted
\* dictExpand chooses the smallest power of two >= max(target,
\* DICT_HT_INITIAL_SIZE, used); for a target of LONG_MAX or more it chooses
\* LONG_MAX + 1, which is less than a target above LONG_MAX + 1; each table
\* of a reachable state has 0 buckets or a power of two >= 4 of them and the
\* sizemask of that count.
ExpandChoosesClampedPower ==
    /\ \A size \in ExpandTargets \cup PowerEdges :
         dictExpand(d, size).ret = DICT_OK =>
            /\ ExpandedTable(size).size =
                  IF size >= LONG_MAX THEN LONG_MAX + 1
                  ELSE SmallestPowerAtLeast(Max3(size, DICT_HT_INITIAL_SIZE,
                                                 d.ht[0].used))
            /\ TableShape(ExpandedTable(size))
    /\ TablesShaped

\* dictExpand made a table of LONG_MAX + 1 buckets, the most it makes, and
\* then a smaller one, and the entries are on their way to the smaller
ClampedTableRehashing ==
    /\ dictIsRehashing(d)
    /\ d.ht[0].size = LONG_MAX + 1
    /\ d.ht[0].used > 0
    /\ d.ht[1].size >= DICT_HT_INITIAL_SIZE
    /\ d.ht[1].used > 0

(* ------------------------- dictResize: the request ---------------------- *)
\* the bucket count dictResize asks for
ResizeTarget(D) ==
    SmallestPowerAtLeast(IF D.ht[0].used < DICT_HT_INITIAL_SIZE
                         THEN DICT_HT_INITIAL_SIZE ELSE D.ht[0].used)

\* r is d with an empty table of size buckets next to ht[0], or as ht[0] of
\* a dict that had no table; no entry has moved
ResizeOnlyAllocated(r, size) ==
    /\ r.ret = DICT_OK
    /\ r.D.heap = d.heap
    /\ IF d.ht[0].size = 0
       THEN /\ r.D = [d EXCEPT !.ht[0] = r.D.ht[0]]
            /\ r.D.ht[0].size = size /\ r.D.ht[0].used = 0
            /\ \A i \in DOMAIN r.D.ht[0].table : r.D.ht[0].table[i] = NULL
       ELSE /\ r.D = [d EXCEPT !.ht[1] = r.D.ht[1], !.rehashidx = 0]
            /\ r.D.ht[1].size = size /\ r.D.ht[1].used = 0
            /\ \A i \in DOMAIN r.D.ht[1].table : r.D.ht[1].table[i] = NULL

ResizeAnswers(r) ==
    IF dict_can_resize = 0 \/ dictIsRehashing(d)
    THEN r.ret = DICT_ERR /\ r.D = d
    ELSE IF ResizeTarget(d) = d.ht[0].size
    THEN r.ret = DICT_ERR /\ r.D = d
    ELSE ResizeOnlyAllocated(r, ResizeTarget(d))

\* C29: dictResize is refused with an error, leaving the dict unchanged,
\* while a rehash is in progress or while dict_can_resize is 0; otherwise it
\* targets the smallest power of two >= max(used, DICT_HT_INITIAL_SIZE) (and
\* is an error without effect when ht[0] has that size already); the request
\* allocates the table and moves no entry, the entries move in later rehash
\* steps.
ResizeRefusedOrOnlyAllocates ==
    /\ [](Running => ResizeAnswers(dictResize(d)))
    /\ [][d'.ht[1].used > d.ht[1].used =>
            \/ \E n \in 1..MaxRehashN : CallDictRehash(n)
            \/ \E key \in GrowKeys : CallDictAdd(key, NumVals)
            \/ \E key \in GrowKeys : CallDictDelete(key)]_vars

\* with resizing off, a table of more buckets than dictResize would ask for
\* is not rehashing: the request is refused for the switch alone, and is
\* taken once the switch is on
ResizeRefusedBySwitch ==
    /\ dict_can_resize = 0 /\ ~dictIsRehashing(d)
    /\ d.ht[0].used > 0
    /\ d.ht[0].size > ResizeTarget(d)
    /\ dictResize(d).ret = DICT_ERR

(* ------------------------------ hashTypeDelete -------------------------- *)
\* the place of field among the pairs of a packed hash
PairIndex(zl, field) ==
    CHOOSE i \in 1..(Len(zl) \div 2) : zl[2 * i - 1] = field

\* zl without its i-th pair, the field node and the value node
WithoutPair(zl, i) ==
    SubSeq(zl, 1, 2 * i - 2) \o SubSeq(zl, 2 * i + 1, Len(zl))

\* fewer than one tenth of the buckets are used, and there are more buckets
\* than the fewest a table has
ShrinkDue(D) ==
    /\ D.ht[0].size + D.ht[1].size > DICT_HT_INITIAL_SIZE
    /\ 10 * (D.ht[0].used + D.ht[1].used) < D.ht[0].size + D.ht[1].size

\* the delete of a field the packed hash holds
PackedDeleteAgrees(r, field) ==
    /\ r.deleted = 1
    /\ r.o = [o EXCEPT !.ptr = WithoutPair(o.ptr, PairIndex(o.ptr, field))]

\* the delete of a field the hash table holds: dd is the dict after dictDelete
TableDeleteAgrees(r, dd, field) ==
    /\ r.deleted = 1
    /\ HashPairs(r.o) = HashPairs(o) \ {<<field, o_model[field]>>}
    /\ r.o = [o EXCEPT !.ptr = IF ShrinkDue(dd) THEN dictResize(dd).D ELSE dd]

\* the delete of a field the hash does not hold: nothing of the hash changes,
\* a table is the one dictDelete left and no resize was asked for
AbsentDeleteAgrees(r, field) ==
    /\ r.deleted = 0
    /\ HashPairs(r.o) = HashPairs(o)
    /\ IF o.encoding = OBJ_ENCODING_ZIPLIST THEN r.o = o
       ELSE r.o = [o EXCEPT !.ptr = dictDelete(o.ptr, field).D]

DeleteAgrees(r, field) ==
    IF field \notin DOMAIN o_model THEN AbsentDeleteAgrees(r, field)
    ELSE IF o.encoding = OBJ_ENCODING_ZIPLIST THEN PackedDeleteAgrees(r, field)
    ELSE TableDeleteAgrees(r, dictDelete(o.ptr, field).D, field)

\* C30: hashTypeDelete returns 1 iff the field was present; on a packed hash
\* it removes the field node and its value node; on a hash table a
\* successful delete is followed by a dictResize request exactly when fewer
\* than one tenth of the buckets are used and the table has more than
\* DICT_HT_INITIAL_SIZE buckets; the delete of an absent field returns 0,
\* changes nothing of the hash and asks for no resize.
DeleteRemovesPairAndShrinks ==
    o.panic = "none" =>
        \A field \in HashFields : DeleteAgrees(hashTypeDelete(o, field), field)

\* the last field of a hash table of more than DICT_HT_INITIAL_SIZE buckets
\* was deleted, and the table is on its way to fewer buckets
DeleteStartedShrink ==
    /\ o_log.op = "delete" /\ o_log.ret = 1
    /\ o.encoding = OBJ_ENCODING_HT
    /\ dictIsRehashing(o.ptr)
    /\ o.ptr.ht[1].size < o.ptr.ht[0].size

(* ------------------ the rehash step of lookups and mutations ------------ *)
\* d after exactly one rehash step
OneStep == dictRehash(d, 1).D

\* dictFind, dictAddRaw, dictReplace, dictAddOrFind, dictDelete, dictUnlink
\* and dictGetRandomKey called on d did what they do on D1 without a
\* rehash step of their own
ActedOn(D1, key) ==
    /\ dictFind(d, key) = FindIn(D1, key)
    /\ dictAddRaw(d, key) = AddRawIndexed(_dictKeyIndex(D1, key), key)
    /\ dictReplace(d, key, NumVals) =
          ReplaceValue(AddRawIndexed(_dictKeyIndex(D1, key), key), NumVals)
    /\ dictAddOrFind(d, key) =
          EntryOrExisting(AddRawIndexed(_dictKeyIndex(D1, key), key))
    /\ dictUnlink(d, key) = DeleteSearch(D1, key, 1, dictHashKey(key))
    /\ dictDelete(d, key) =
          DeleteStatus(DeleteSearch(D1, key, 0, dictHashKey(key)))
    /\ dictGetRandomKey(d).D = D1

\* the unsafe iterator is live
UnsafeLive == iter.live /\ iter.safe = 0

\* C31 as stated: every lookup or mutation (find, add_raw, replace, delete,
\* unlink, random entry) called while a rehash is in progress first runs
\* exactly one rehash step, provided no unsafe iterator is live.
StepUnlessUnsafeIterator ==
    Running /\ dictIsRehashing(d) /\ ~UnsafeLive =>
        \A key \in StepKeys : ActedOn(OneStep, key)

\* the calls that return before the rehash step when the dict is empty
ReturnsEarly(key) ==
    /\ dictFind(d, key) = [D |-> d, he |-> NULL]
    /\ dictUnlink(d, key) = [D |-> d, he |-> NULL]
    /\ dictDelete(d, key) = [D |-> d, ret |-> DICT_ERR]
    /\ dictGetRandomKey(d).D = d
    /\ dictAddRaw(d, key) =
          AddRawIndexed(_dictKeyIndex(IF d.iterators = 0 THEN OneStep ELSE d,
                                      key), key)

\* C31, amended: every lookup or mutation (find, add_raw, replace, delete,
\* unlink, random entry) called while a rehash is in progress first runs
\* exactly one rehash step provided d->iterators is 0, that is no safe
\* iterator has been advanced and not released, whether or not an unsafe
\* iterator is live; with d->iterators above 0 it runs none; find, delete,
\* unlink and random entry on a dict without entries return before the step.
StepUnlessSafeIterator ==
    Running /\ dictIsRehashing(d) =>
        \A key \in StepKeys :
            IF dictSize(d) = 0 THEN ReturnsEarly(key)
            ELSE ActedOn(IF d.iterators = 0 THEN OneStep ELSE d, key)

\* a rehash is in progress on a dict with entries still in ht[0] and an
\* unsafe iterator has been advanced: the calls run their step
StepBesideUnsafeIterator ==
    /\ Running /\ dictIsRehashing(d) /\ d.ht[0].used > 0
    /\ UnsafeLive /\ IterStarted(iter)
    /\ d.iterators = 0
    /\ OneStep /= d

(* ----------------------- the counter of safe iterators ------------------ *)
\* the safe iterators among iter and iter2 that satisfy P
SafeIterators(P(_)) ==
    Cardinality({i \in 1..2 : P(IF i = 1 THEN iter ELSE iter2)})

CreatedNotClosed(it) == it.live /\ it.safe = 1

AdvancedNotClosed(it) == it.live /\ it.safe = 1 /\ IterStarted(it)

\* C32 as stated: creating a safe iterator increments d->iterators and
\* closing it decrements it, so the counter is at every moment the number
\* of safe iterators created and not yet closed, and is never negative.
CounterIsCreatedIterators ==
    /\ d.iterators = SafeIterators(CreatedNotClosed)
    /\ d.iterators >= 0

\* C32, amended: the first dictNext of a safe iterator increments
\* d->iterators, and closing an iterator that was advanced decrements it, so
\* the counter is at every moment the number of safe iterators on which
\* dictNext has been called and that are not yet closed, and is never
\* negative; a safe iterator that was created and not advanced is not
\* counted.
CounterIsAdvancedIterators ==
    /\ d.iterators = SafeIterators(AdvancedNotClosed)
    /\ d.iterators >= 0

\* two safe iterators are counted, and the dict is rehashing beside them
TwoSafeIteratorsCounted ==
    /\ d.iterators = 2
    /\ AdvancedNotClosed(iter) /\ AdvancedNotClosed(iter2)
    /\ dictIsRehashing(d)

(* -------------------------- a rehash comes to its end ------------------- *)
\* d and d' are in the same rehash: the same two tables, rehashing
SameRehash ==
    /\ dictIsRehashing(d) /\ dictIsRehashing(d')
    /\ d'.ht[0].addr = d.ht[0].addr
    /\ d'.ht[1].addr = d.ht[1].addr

\* a dict that is not rehashing has every entry in ht[0] and no second table
AllInFirstTable ==
    ~dictIsRehashing(d) =>
        /\ d.rehashidx = 0 - 1
        /\ d.ht[1].size = 0 /\ d.ht[1].used = 0
        /\ {d.heap[he].key : he \in TableEntries(d, 0)} = DOMAIN model
        /\ d.ht[0].used = Cardinality(DOMAIN model)

\* C33: once an expansion or a shrink has started a rehash and no safe
\* iterator is live, the rehash completes after finitely many further calls
\* that run a rehash step or of dictRehash: while it lasts ht[0].used never
\* increases, new entries going to ht[1], and rehashidx only advances; in the
\* end rehashidx is -1 again and every entry is in ht[0].
RehashCompletes ==
    /\ [][SameRehash => /\ d'.ht[0].used <= d.ht[0].used
                        /\ d'.rehashidx >= d.rehashidx]_vars
    /\ [](Running /\ AllInFirstTable)
    /\ (dictIsRehashing(d) ~> ~dictIsRehashing(d))

\* a shrink is under way: entries on both sides, buckets passed, and an
\* entry more in ht[1] than the rehash has moved there
RehashHalfWay ==
    /\ dictIsRehashing(d) /\ d.iterators = 0
    /\ d.rehashidx > 0
    /\ d.ht[0].used > 0 /\ d.ht[1].used > 0
    /\ d.ht[1].size < d.ht[0].size
    /\ d.ht[0].used + d.ht[1].used = Cardinality(DOMAIN model)

(* --------------------------- one call of dictRehash --------------------- *)
\* the buckets a..b of table t that hold a chain, and those that hold none
FullBuckets(t, a, b) == {i \in a..b : t.table[i] /= NULL}

EmptyBuckets(t, a, b) == {i \in a..b : t.table[i] = NULL}

\* the last bucket of ht[0] that holds a chain
LastFullBucket(D) ==
    CHOOSE i \in FullBuckets(D.ht[0], 0, D.ht[0].size - 1) :
        \A j \in FullBuckets(D.ht[0], 0, D.ht[0].size - 1) : j <= i

\* the last bucket the call that returned r went over: the one before the
\* new rehashidx, or the last full one when the rehash came to its end
LastVisited(r) ==
    IF dictIsRehashing(r.D) THEN r.D.rehashidx - 1
    ELSE IF d.ht[0].used = 0 THEN d.rehashidx - 1
    ELSE LastFullBucket(d)

\* dictRehash(d, n) returned r
RehashBounded(r, n) ==
    /\ r.D.fault = "none"
    /\ Cardinality(FullBuckets(d.ht[0], d.rehashidx, LastVisited(r))) <= n
    /\ Cardinality(EmptyBuckets(d.ht[0], d.rehashidx, LastVisited(r))) <= 10 * n
    /\ r.ret \in {0, 1}
    /\ r.ret = 0 <=> ~dictIsRehashing(r.D)
    /\ r.ret = 1 => r.D.ht[0].used > 0
    /\ dictIsRehashing(r.D) =>
          /\ r.D.ht[0].used + r.D.ht[1].used = d.ht[0].used + d.ht[1].used
          /\ \A i \in d.rehashidx..LastVisited(r) : r.D.ht[0].table[i] = NULL
          /\ \A i \in r.D.rehashidx..(d.ht[0].size - 1) :
                r.D.ht[0].table[i] = d.ht[0].table[i]

\* C34: one call dictRehash(d, n) moves at most n non-empty buckets and
\* passes at most 10 * n empty ones before it returns; it returns 0 exactly
\* when the dict is not rehashing on return (it was not, or the rehash has
\* just come to its end) and 1 when entries remain in ht[0].
RehashCallBounded ==
    Running =>
        \A n \in 0..MaxRehashN :
            IF dictIsRehashing(d) THEN RehashBounded(dictRehash(d, n), n)
            ELSE dictRehash(d, n) = [D |-> d, ret |-> 0]

\* a call with n = 1 has given up after 10 empty buckets, before the one
\* chain of ht[0]
RehashGaveUpOnEmptyBuckets ==
    /\ dictIsRehashing(d)
    /\ d.rehashidx = 10
    /\ d.ht[0].used > 0 /\ d.ht[1].used = 0
    /\ FullBuckets(d.ht[0], 0, d.rehashidx - 1) = {}

(* ------------------- the full scan of a dict that stands still ---------- *)
\* the calls of a scan of D from cursor v until 0 comes back, or until there
\* are more of them than buckets: for each call the cursor it was given, the
\* cursor it returned and what it emitted
RECURSIVE ScanCalls(_, _, _)
ScanCallsNext(D, v, r, calls) ==
    IF r.v = 0 \/ Len(calls) >= D.ht[0].size + D.ht[1].size
    THEN Append(calls, [v |-> v, next |-> r.v, emit |-> r.emit])
    ELSE ScanCalls(D, r.v, Append(calls, [v |-> v, next |-> r.v,
                                          emit |-> r.emit]))

ScanCalls(D, v, calls) ==
    The({ScanCallsNext(D, v, r, calls) : r \in {dictScan(D, v)}})

\* every entry of D is in the emit of exactly one call, once
EmittedOnce(D, calls) ==
    \A he \in Chained(D) :
        Cardinality({<<c, j>> \in (1..Len(calls)) \X (1..NumKeys + 1) :
                        /\ j <= Len(calls[c].emit)
                        /\ calls[c].emit[j] = he}) = 1

\* the scan is one call per bucket: calls of them, every bucket once, each
\* call emitting its bucket and returning the cursor of the formula
OneCallPerBucket(D, calls) ==
    /\ Len(calls) = D.ht[0].size
    /\ {BitAnd(calls[c].v, D.ht[0].sizemask) : c \in 1..Len(calls)} =
          0..(D.ht[0].size - 1)
    /\ calls[Len(calls)].next = 0
    /\ \A c \in 1..Len(calls) :
          /\ calls[c].emit = EmitBucket(D, 0, calls[c].v)
          /\ rev(calls[c].next) =
                (rev(BitOr(calls[c].v, BitNot(D.ht[0].sizemask))) + 1) % WordMod
    /\ EmittedOnce(D, calls)

\* C35 as stated: on a dict that is not rehashing and is not modified or
\* resized during the scan, with S buckets, the scan from cursor 0 is back at
\* cursor 0 after exactly S calls, each call emits one bucket, every bucket
\* is emitted exactly once and so is every entry; the next cursor is
\* rev(rev(cursor | ~mask) + 1).
ScanTakesOneCallPerBucket ==
    Running /\ ~dictIsRehashing(d) /\ d.ht[0].size > 0 =>
        OneCallPerBucket(d, ScanCalls(d, 0, <<>>))

\* C35, amended: the same of a dict that holds at least one entry; on a
\* dict without entries the first call returns cursor 0 and emits nothing,
\* however many buckets there are.
ScanOfEntriesTakesOneCallPerBucket ==
    Running /\ ~dictIsRehashing(d) =>
        IF dictSize(d) = 0 THEN dictScan(d, 0) = [v |-> 0, emit |-> <<>>]
        ELSE OneCallPerBucket(d, ScanCalls(d, 0, <<>>))

\* a scan has just come back to cursor 0 on a table of more than the fewest
\* buckets, with chains in several of them, that no call changed meanwhile
ScanOfWideTableDone ==
    /\ scanlog.done /\ ~scanlog.keysChanged
    /\ cursor = 0
    /\ ~dictIsRehashing(d)
    /\ d.ht[0].size > DICT_HT_INITIAL_SIZE
    /\ Cardinality(FullBuckets(d.ht[0], 0, d.ht[0].size - 1)) > 1

(* ----------------------- what dictRehashMilliseconds returns ------------ *)
\* the buckets with a chain that ht[0] of D still has to move
BucketsToMove(D) ==
    IF dictIsRehashing(D)
    THEN Cardinality(FullBuckets(D.ht[0], D.rehashidx, D.ht[0].size - 1))
    ELSE 0

\* the buckets that were moved between d and the dict D1 a rehash call left
BucketsMoved(D1) == BucketsToMove(d) - BucketsToMove(D1)

\* C36: dictRehashMilliseconds returns the number of bucket migrations it
\* performed during the call, whatever the time budget (the number of times
\* the clock is read before it is exceeded) and however many buckets were
\* left to move.
RehashMillisecondsCountsMoves ==
    Running =>
        \A slices \in 1..MaxSlices :
            dictRehashMilliseconds(d, slices).ret =
                BucketsMoved(dictRehashMilliseconds(d, slices).D)

\* what holds of the count: it is 100 for every call of dictRehash(d, 100)
\* that left entries to move, and the call that ends the rehash adds nothing
RehashMillisecondsCountsHundreds ==
    Running =>
        \A slices \in 1..MaxSlices :
            /\ dictRehashMilliseconds(d, slices).ret % 100 = 0
            /\ dictRehash(d, 100).ret = 0 =>
                  /\ dictRehashMilliseconds(d, slices).ret = 0
                  /\ dictRehashMilliseconds(d, slices).D = dictRehash(d, 100).D

(* ------------------------------ dictGetSomeKeys ------------------------- *)
Min(a, b) == IF a <= b THEN a ELSE b

\* dictGetSomeKeys(d, des, count) returned r.st: des holds Len(des) entries
SomeKeysSafe(r, count) ==
    /\ ~r.st.fault
    /\ Len(r.st.des) <= Min(count, dictSize(d))
    /\ \A j \in 1..Len(r.st.des) :
          /\ r.st.des[j] \in Chained(r.D)
          /\ r.D.heap[r.st.des[j]].alloc
    /\ r.st.steps <= 10 * Min(count, dictSize(d))
    /\ r.st.returned => Len(r.st.des) = Min(count, dictSize(d))
    /\ Chained(r.D) = Chained(d)

\* C37: dictGetSomeKeys(d, des, count) writes exactly as many entries as it
\* returns, at most min(count, number of entries of the dict), so des is not
\* overrun; every entry written is a live entry of the dict; every bucket it
\* reads is within the table read; its sampling loop runs at most
\* 10 * min(count, size) times.
SomeKeysWithinBounds ==
    Running =>
        \A count \in SomeCounts, r0, r1 \in RandomSeeds :
            SomeKeysSafe(dictGetSomeKeys(d, count, r0, r1), count)

\* a dict shrinking from many buckets to few, entries in both tables, is
\* sampled from a bucket the small table does not have and below rehashidx:
\* the walk jumps to rehashidx and collects entries of both tables
SampledAcrossTables ==
    /\ Running /\ dictIsRehashing(d)
    /\ d.ht[1].size < d.ht[0].size
    /\ d.ht[0].used > 0 /\ d.ht[1].used > 0
    /\ d.rehashidx > d.ht[1].size
    /\ \E r0 \in RandomSeeds :
          /\ r0 >= d.ht[1].size /\ r0 < d.rehashidx
          /\ Len(dictGetSomeKeys(d, 2, r0, 1).st.des) = 2
          /\ \E t \in 0..1 :
                /\ dictGetSomeKeys(d, 2, r0, 1).st.des[1] \in TableEntries(d, t)
                /\ dictGetSomeKeys(d, 2, r0, 1).st.des[2] \in TableEntries(d, 1 - t)

(* ------------------------ ownership in hashTypeSet ---------------------- *)
SetFlags == {HASH_SET_COPY, HASH_SET_TAKE_FIELD, HASH_SET_TAKE_VALUE,
             HASH_SET_TAKE_FIELD + HASH_SET_TAKE_VALUE}

TimesFreed(own, p) == Cardinality({i \in DOMAIN own.freed : own.freed[i] = p})

\* the string p of a call: taken, it is held by the hash or freed once, not
\* both; not taken, it is neither freed nor held
OwnedRight(own, p, taken) ==
    IF taken
    THEN (IF p \in own.held THEN 1 ELSE 0) + TimesFreed(own, p) = 1
    ELSE p \notin own.held /\ TimesFreed(own, p) = 0

\* what the hash answers for field is value, by a string it holds or a copy
StoredRight(c, field, value) ==
    /\ \A g \in {hashTypeGetValue(c.r.o, field)} :
          g.ret = C_OK /\ g.vstr = value
    /\ "value" \in c.own.held \cup c.own.copied
    /\ c.own.held \cap c.own.copied = {}
    /\ c.r.update = 0 => "field" \in c.own.held \cup c.own.copied
    /\ c.r.update = 1 => "field" \notin c.own.held \cup c.own.copied

SetOwnsRight(c, field, value, flags) ==
    /\ c.r.o.panic = "none"
    /\ OwnedRight(c.own, "field", BitAnd(flags, HASH_SET_TAKE_FIELD) /= 0)
    /\ OwnedRight(c.own, "value", BitAnd(flags, HASH_SET_TAKE_VALUE) /= 0)
    /\ StoredRight(c, field, value)

\* C38: in both encodings, on insert and on update, a string passed to
\* hashTypeSet with its TAKE flag is on return held by the hash or freed
\* exactly once, never both and never neither; a string passed without the
\* flag is not freed and not held, the hash stores a copy.
SetRespectsOwnership ==
    o.panic = "none" =>
        \A field \in HashFields, value \in HashVals :
            \A r \in {hashTypeSet(o, field, value)}, flags \in SetFlags :
                SetOwnsRight(SetFlagsOf(o, r, field, flags), field, value,
                             flags)

\* a table-encoded hash holds the field: with both flags the value passed
\* replaces the old one, which is freed, and the field passed is freed
SetTookValueFreedField ==
    /\ o.panic = "none" /\ o.encoding = OBJ_ENCODING_HT
    /\ \E field \in HashFields, value \in HashVals :
          /\ dictFind(o.ptr, field).he /= NULL
          /\ hashTypeSetFlags(o, field, value,
                              HASH_SET_TAKE_FIELD + HASH_SET_TAKE_VALUE).own
               = [field |-> "field", value |-> "NULL", held |-> {"value"},
                  copied |-> {}, freed |-> <<"old", "field">>]
    /\ \E field \in HashFields, value \in HashVals :
          /\ dictFind(o.ptr, field).he = NULL
          /\ hashTypeSetFlags(o, field, value, HASH_SET_TAKE_FIELD).own
               = [field |-> "NULL", value |-> "value", held |-> {"field"},
                  copied |-> {"value"}, freed |-> <<>>]

(* ------------------------- iterating a hash object ---------------------- *)
HashReplyFlags == (SUBSET {OBJ_HASH_KEY, OBJ_HASH_VALUE}) \ {{}}

\* the pairs of a reply to HGETALL, in the order they were added
ReplyPairs(reply) ==
    [i \in 1..(Len(reply) \div 2) |-> <<reply[2 * i - 1], reply[2 * i]>>]

NoRepeat(seq) == \A i, j \in DOMAIN seq : seq[i] = seq[j] => i = j

\* r is what HGETALL answered, k what HKEYS did
IterationExact(r, k) ==
    /\ r.o.panic = "none" /\ k.o.panic = "none"
    /\ r.o = o /\ k.o = o
    /\ Len(r.reply) = 2 * hashTypeLength(o)
    /\ Len(k.reply) = hashTypeLength(o)
    /\ NoRepeat(k.reply)
    /\ {k.reply[i] : i \in DOMAIN k.reply} = DOMAIN o_model
    /\ {ReplyPairs(r.reply)[i] : i \in DOMAIN ReplyPairs(r.reply)}
         = HashPairs(o)
    /\ \A i \in DOMAIN k.reply : r.reply[2 * i - 1] = k.reply[i]

\* C39: iterating a hash object to the end with hashTypeInitIterator and
\* hashTypeNext, nothing modified in between, yields hashTypeLength(o)
\* pairs, each field once, packed or table encoded, the table mid-rehash
\* included; so neither the assertion count == length of HGETALL, HKEYS and
\* HVALS nor the fingerprint check at the release of the iterator fails.
IterationYieldsLength ==
    /\ o.panic = "none"
    /\ \A flags \in HashReplyFlags :
          \A r \in {genericHgetall(o, flags)} :
              r.o.panic = "none" /\ Len(r.reply) = hashTypeLength(o) * Cardinality(flags)
    /\ IterationExact(genericHgetall(o, {OBJ_HASH_KEY, OBJ_HASH_VALUE}),
                      genericHgetall(o, {OBJ_HASH_KEY}))

\* HGETALL answered on a hash whose table is mid-rehash with fields in
\* both tables
IteratedMidRehash ==
    /\ o_log.op = "hgetall" /\ o.panic = "none"
    /\ o.encoding = OBJ_ENCODING_HT /\ dictIsRehashing(o.ptr)
    /\ o.ptr.ht[0].used > 0 /\ o.ptr.ht[1].used > 0
    /\ o_log.ret = 2 * hashTypeLength(o)
    /\ hashTypeLength(o) > DICT_HT_INITIAL_SIZE

(* --------------------------------- HINCRBY ------------------------------ *)
\* HINCRBY of a field holding oldvalue (0: none) by incr answered r
IncrementExact(r, oldvalue, incr) ==
    /\ \A e \in r.evaluated : InLongLong(e)
    /\ IF InLongLong(oldvalue + incr)
       THEN /\ r.stored /\ r.reply = "integer"
            /\ r.value = oldvalue + incr
       ELSE /\ ~r.stored
            /\ r.reply = "increment or decrement would overflow"

LongLongs == LLONG_MIN..LLONG_MAX

\* the field of the hash after the command, against the one before
IncrementStored(r, field, oldvalue, incr) ==
    \A g \in {hashTypeGetValue(r.o, field)}, b \in {hashTypeGetValue(o, field)} :
        IF InLongLong(oldvalue + incr)
        THEN g.ret = C_OK /\ g.vstr = oldvalue + incr
        ELSE g.ret = b.ret /\ g.vstr = b.vstr /\ HashPairs(r.o) = HashPairs(o)

IncrementOfField(field, oldvalue) ==
    \A incr \in Increments \cup
                 ({0 - oldvalue, LLONG_MAX - oldvalue,
                   LLONG_MAX - oldvalue + 1, LLONG_MIN - oldvalue,
                   LLONG_MIN - oldvalue - 1} \cap LongLongs) :
        \A r \in {hincrby(o, field, incr)} :
            /\ r.oldvalue = oldvalue
            /\ IncrementExact(r, oldvalue, incr)
            /\ IncrementStored(r, field, oldvalue, incr)

\* the test of hincrbyCommand over every pair of long longs; it does not
\* depend on the state, so the initial state is where it is evaluated
OverflowTestExact ==
    \A oldvalue, incr \in LongLongs :
        \A t \in {HincrOverflows(oldvalue, incr)} :
            /\ t.overflow = ~InLongLong(oldvalue + incr)
            /\ \A e \in t.evaluated : InLongLong(e)

\* C40: HINCRBY never stores a wrapped value: with old the integer the
\* field holds (0 when it is absent) and incr the increment, when old + incr
\* is outside the range of a long long the reply is the overflow error and
\* the field is unchanged, otherwise exactly old + incr is stored; the test
\* and the addition evaluate no expression outside the range.
IncrementNeverWraps ==
    /\ o.panic = "none"
    /\ o_log.op = "none" => OverflowTestExact
    /\ \A field \in IncrFields :
          IncrementOfField(field, IF field \in DOMAIN o_model
                                  THEN o_model[field] ELSE 0)

\* a field of a table-encoded hash holding the smallest long long was
\* decremented: the reply was the overflow error and the field kept its value
DecrementRefusedAtMinimum ==
    /\ o_log.op = "hincrby" /\ o_log.ret = 0 /\ o_log.long
    /\ o_log.want = LLONG_MIN /\ o_log.wantstr < 0
    /\ o.encoding = OBJ_ENCODING_HT
    /\ \E field \in DOMAIN o_model : o_model[field] = LLONG_MIN
    /\ \E field \in DOMAIN o_model : o_model[field] = LLONG_MAX

====
